---- MODULE Spec2Model ----
(***************************************************************************)
(* Window/Control query and action engine of ahkpy (src/ahkpy/window.py).  *)
(* Caller threads run Windows, Window and Control operations; every        *)
(* backend command goes through ahk_call under global_ahk_lock.  The       *)
(* backend keeps process-wide session state (DetectHiddenWindows,          *)
(* DetectHiddenText, SetTitleMatchMode, delays, Last Found Window).        *)
(*                                                                         *)
(* Python values are records [k, v] with an integer payload: None is       *)
(* [k |-> "None", v |-> 0], a bool is [k |-> "bool", v |-> 0/1], a Window  *)
(* or Control handle carries its id in v.  Durations are kept in           *)
(* milliseconds.  Strings that the backend matches are sequences of        *)
(* one-character strings.                                                  *)
(***************************************************************************)
EXTENDS Integers, Sequences, FiniteSets, TLC

\* ------------------------------------------------------------------ bounds
NumThreads == 2
NumWins == 2
MaxEnv == 1

NumCtls == 2

Threads == 1..NumThreads
WinIds == 1..NumWins
\* controls are child windows with handles of their own
CtlIds == (NumWins + 1)..(NumWins + NumCtls)
Hwnds == WinIds \cup CtlIds

\* ------------------------------------------------------- python level values
UNSET == [tag |-> "UNSET"]
None == [tag |-> "None"]
Val(x) == [tag |-> "val", v |-> x]

PyNone == [k |-> "None", v |-> 0]
PyBool(b) == [k |-> "bool", v |-> IF b THEN 1 ELSE 0]
PyInt(n) == [k |-> "int", v |-> n]
PyWindow(id) == [k |-> "Window", v |-> id]
PyControl(id) == [k |-> "Control", v |-> id]
PyStr(n) == [k |-> "str", v |-> n]
PyList(n) == [k |-> "list", v |-> n]

\* bool(x): None, False, 0, "" and a handle with id 0 are falsy
Truthy(x) == x.k # "None" /\ x.v # 0

Returned(x) == [raised |-> FALSE, val |-> x, exc |-> "", message |-> ""]
Raised(e, m) == [raised |-> TRUE, val |-> PyNone, exc |-> e, message |-> m]
NoOutcome == [raised |-> FALSE, val |-> [k |-> "pending", v |-> 0], exc |-> "", message |-> ""]

TITLE_MATCH_MODES == {"startswith", "contains", "exact", "regex"}
TEXT_MATCH_MODES == {"fast", "slow"}

\* str(): None gives the four-letter word, a string itself, an int its decimal digits
StrNone == <<"N", "o", "n", "e">>
Digits == <<"0", "1", "2", "3", "4", "5", "6", "7", "8", "9">>
RECURSIVE IntStr(_)
IntStr(n) == IF n < 10 THEN <<Digits[n + 1]>> ELSE IntStr(n \div 10) \o <<Digits[(n % 10) + 1]>>
Str(f) == IF f = None THEN StrNone ELSE f.v
StrI(f) == IF f = None THEN StrNone ELSE IntStr(f.v)

\* -------------------------------------------------------------- the Windows
\* dataclass and its query fragments
DefaultWindows ==
    [title |-> UNSET, class_name |-> UNSET, id |-> UNSET, pid |-> UNSET, exe |-> UNSET,
     text |-> UNSET, exclude_title |-> UNSET, exclude_text |-> UNSET,
     hidden_windows |-> FALSE, hidden_text |-> TRUE,
     title_mode |-> "startswith", text_mode |-> "fast"]

Part(c, x) == [crit |-> c, v |-> x]

\* _include with the class criterion appended after the others
Windows__include_class_last(self) ==
    [title |->
        (IF self.title # UNSET THEN <<Part("title", Str(self.title))>> ELSE <<>>) \o
        (IF self.id # UNSET THEN <<Part("ahk_id", StrI(self.id))>> ELSE <<>>) \o
        (IF self.pid # UNSET THEN <<Part("ahk_pid", StrI(self.pid))>> ELSE <<>>) \o
        (IF self.exe # UNSET THEN <<Part("ahk_exe", Str(self.exe))>> ELSE <<>>) \o
        (IF self.class_name # UNSET THEN <<Part("ahk_class", Str(self.class_name))>> ELSE <<>>),
     text |-> IF self.text # UNSET THEN Str(self.text) ELSE <<>>]

Windows__include(self) ==
    [title |->
        (IF self.title # UNSET THEN <<Part("title", Str(self.title))>> ELSE <<>>) \o
        (IF self.class_name # UNSET THEN <<Part("ahk_class", Str(self.class_name))>> ELSE <<>>) \o
        (IF self.id # UNSET THEN <<Part("ahk_id", StrI(self.id))>> ELSE <<>>) \o
        (IF self.pid # UNSET THEN <<Part("ahk_pid", StrI(self.pid))>> ELSE <<>>) \o
        (IF self.exe # UNSET THEN <<Part("ahk_exe", Str(self.exe))>> ELSE <<>>),
     text |-> IF self.text # UNSET THEN Str(self.text) ELSE <<>>]

Windows__exclude(self) ==
    [title |-> IF self.exclude_title # UNSET THEN Str(self.exclude_title) ELSE <<>>,
     text |-> IF self.exclude_text # UNSET THEN Str(self.exclude_text) ELSE <<>>]

Query(inc, exc) ==
    [title |-> inc.title, text |-> inc.text, extitle |-> exc.title, extext |-> exc.text]

Windows__query(self) == Query(Windows__include(self), Windows__exclude(self))

\* " ".join(parts) == "" : no part, or a lone empty title
BlankTitle(parts) ==
    Len(parts) = 0 \/ (Len(parts) = 1 /\ parts[1].crit = "title" /\ Len(parts[1].v) = 0)
BlankQuery(q) ==
    BlankTitle(q.title) /\ Len(q.text) = 0 /\ Len(q.extitle) = 0 /\ Len(q.extext) = 0

ActiveQuery == [title |-> <<Part("title", <<"A">>)>>, text |-> <<>>, extitle |-> <<>>, extext |-> <<>>]
\* f"ahk_group {name}" as the title of a command
GroupQuery(name) == [title |-> <<Part("ahk_group", name)>>, text |-> <<>>, extitle |-> <<>>, extext |-> <<>>]
IsGroupQuery(q) == Len(q.title) = 1 /\ q.title[1].crit = "ahk_group"

WindowHandle_include(id) == [title |-> <<Part("ahk_id", IntStr(id))>>, text |-> <<>>]
HandleQuery(id) == Query(WindowHandle_include(id), [title |-> <<>>, text |-> <<>>])

optional_ms(value) == IF value < 0 THEN -1 ELSE value

\* ------------------------------------------------------------- the backend
\* Desktop: windows 1..NumWins in z-order (1 topmost); even ids are hidden
\* windows.  Titles, classes and texts are fixed per window.
WinHidden(w) == w % 2 = 0
WinTitle(w) == IF w % 2 = 1 THEN <<"a", "b">> ELSE <<"b">>
\* class names, as the strings the backend reports (index 0 is the empty string)
StrTable ==
    << <<"L", "i", "s", "t", "B", "o", "x">>,
       <<"S", "y", "s", "L", "i", "s", "t", "V", "i", "e", "w", "3", "2">>,
       <<"E", "d", "i", "t">>,
       <<"C", "o", "m", "b", "o", "B", "o", "x">>,
       <<"N", "o", "t", "e", "p", "a", "d">>,
       <<"a", "b">>, <<"b">>, <<"t">>, <<"h">> >>
StrOf(i) == IF i = 0 THEN <<>> ELSE StrTable[i]
StrIndex(str) == IF str = <<>> THEN 0 ELSE CHOOSE i \in 1..Len(StrTable) : StrTable[i] = str
ClassIndex(w) == IF w \in WinIds THEN 5 ELSE ((w - NumWins - 1) % 4) + 1
WinClass(w) == StrOf(ClassIndex(w))
\* extended style: odd windows are topmost (WS_EX_TOPMOST = 8)
WinExStyle(w) == IF w % 2 = 1 THEN 8 ELSE 0
\* the process that owns the window
WinPid(w) == 100 + w
CtlItemCount(w) == 2
CtlLineCount(w) == 1
WinVisibleText(w) == <<"t">>
WinHiddenText(w) == <<"h">>

IsPrefix(p, s) == Len(p) <= Len(s) /\ SubSeq(s, 1, Len(p)) = p
Contains(p, s) == \E i \in 1..(Len(s) - Len(p) + 1) : SubSeq(s, i, i + Len(p) - 1) = p

DigitVal(c) == CHOOSE d \in 0..9 : Digits[d + 1] = c
IsNumber(s) == Len(s) > 0 /\ \A i \in 1..Len(s) : \E d \in 0..9 : Digits[d + 1] = s[i]
RECURSIVE ParseInt(_)
ParseInt(s) == IF Len(s) = 0 THEN 0 ELSE ParseInt(SubSeq(s, 1, Len(s) - 1)) * 10 + DigitVal(s[Len(s)])

SetMin(S) == CHOOSE x \in S : \A y \in S : x <= y
SetMax(S) == CHOOSE x \in S : \A y \in S : x >= y
\* the windows of S from the topmost down
RECURSIVE FrontToBack(_)
FrontToBack(S) == IF S = {} THEN <<>> ELSE <<SetMin(S)>> \o FrontToBack(S \ {SetMin(S)})

InitAhk ==
    [DetectHiddenWindows |-> "Off", DetectHiddenText |-> "On", TitleMatchMode |-> "1",
     TitleMatchSpeed |-> "fast", WinDelay |-> 100, KeyDelay |-> 10, ControlDelay |-> 20,
     SendLevel |-> 0, LastFound |-> 0,
     \* window groups: the fragments added under each group name, and for each
     \* the spec (fields and object) whose action added them
     groups |-> {}]

Detectable(a, d, w) == w \in d.exists /\ (a.DetectHiddenWindows = "On" \/ ~WinHidden(w))

TitleOk(a, pat, title) ==
    CASE a.TitleMatchMode = "1" -> IsPrefix(pat, title)
      [] a.TitleMatchMode = "2" -> Contains(pat, title)
      [] a.TitleMatchMode = "3" -> pat = title
      [] OTHER -> Contains(pat, title)

TextOk(a, pat, w) ==
    \/ Contains(pat, WinVisibleText(w))
    \/ a.DetectHiddenText = "On" /\ Contains(pat, WinHiddenText(w))

PartOk(a, part, w) ==
    CASE part.crit = "title" -> TitleOk(a, part.v, WinTitle(w))
      [] part.crit = "ahk_class" -> part.v = WinClass(w)
      [] part.crit = "ahk_id" -> IsNumber(part.v) /\ ParseInt(part.v) = w
      [] part.crit = "ahk_pid" -> IsNumber(part.v) /\ ParseInt(part.v) = w
      [] OTHER -> FALSE

\* child windows are found only through their handle
ById(q) == \E i \in 1..Len(q.title) : q.title[i].crit = "ahk_id"

MatchWin(a, d, q, w) ==
    /\ Detectable(a, d, w)
    /\ w \in CtlIds => ById(q)
    /\ \A i \in 1..Len(q.title) : PartOk(a, q.title[i], w)
    /\ Len(q.text) = 0 \/ TextOk(a, q.text, w)
    /\ Len(q.extitle) = 0 \/ ~TitleOk(a, q.extitle, WinTitle(w))
    /\ Len(q.extext) = 0 \/ ~TextOk(a, q.extext, w)

\* a query with every parameter blank stands for the Last Found Window
ValidLastFound(a, d) == IF a.LastFound # 0 /\ Detectable(a, d, a.LastFound) THEN {a.LastFound} ELSE {}
\* the windows of a group are those that match any of the fragments added to it
GroupMembers(a, d, name) ==
    {w \in Hwnds : \E g \in a.groups : g.name = name /\ MatchWin(a, d, g.q, w)}
Matches(a, d, q) ==
    IF BlankQuery(q) THEN ValidLastFound(a, d)
    ELSE IF IsGroupQuery(q) THEN GroupMembers(a, d, q.title[1].v)
    ELSE {w \in Hwnds : MatchWin(a, d, q, w)}
FirstMatch(a, d, q) == IF Matches(a, d, q) = {} THEN 0 ELSE SetMin(Matches(a, d, q))
LastMatch(a, d, q) == IF Matches(a, d, q) = {} THEN 0 ELSE SetMax(Matches(a, d, q))
ActiveMatch(a, d, q) ==
    IF q = ActiveQuery THEN d.active
    ELSE IF d.active # 0 /\ d.active \in Matches(a, d, q) THEN d.active ELSE 0

\* window styles WS_VISIBLE and WS_DISABLED, and WS_CAPTION for a bit that is neither
VISIBLE == 268435456
DISABLED == 134217728
CAPTION == 12582912
HasBit(style, bit) == (style \div bit) % 2 = 1
\* what the backend keeps of each window besides its place on the desktop:
\* every window starts at x = its handle, y = 0, 2 wide and 2 high, with the
\* title and class it was created with, no transparency level and no entry
\* selected (sel is the index of the selected entry, -1 for none); the first
\* control has no text; hidden windows lack WS_VISIBLE, and the last control is
\* disabled
InitProps ==
    [rect |-> [w \in Hwnds |-> <<w, 0, 2, 2>>],
     title |-> [w \in Hwnds |-> WinTitle(w)],
     text |-> [w \in Hwnds |-> IF w = NumWins + 1 THEN <<>> ELSE WinVisibleText(w)],
     opacity |-> [w \in Hwnds |-> -1],
     class |-> [w \in Hwnds |-> ClassIndex(w)],
     sel |-> [w \in Hwnds |-> -1],
     style |-> [w \in Hwnds |-> CAPTION + (IF WinHidden(w) THEN 0 ELSE VISIBLE)
                                      + (IF w = NumWins + NumCtls THEN DISABLED ELSE 0)]]

Found(a, w) == IF w # 0 THEN [a EXCEPT !.LastFound = w] ELSE a

\* backend commands: c is the call [cmd, sub, q, tmo], a the session state, d the
\* desktop.  The result is the set of possible [a, d, res] after the command.
\* besides the new state and the result, an answer says which window the
\* command matched, whether it failed although its target was there (fault is
\* then the error code), and whether its timeout expired
AhkResult(a, d, r) ==
    [a |-> a, d |-> d, res |-> r, found |-> 0, fault |-> "", expired |-> FALSE, items |-> <<>>,
     rect |-> <<>>]
AhkError(code) == Raised("Error", code)
AhkFound(a, d, r, w) == [AhkResult(a, d, r) EXCEPT !.found = w]
AhkFault(a, d, code) == [AhkResult(a, d, AhkError(code)) EXCEPT !.fault = code]

Blocking(c) ==
    c.cmd \in {"WinWait", "WinWaitActive", "WinWaitNotActive", "WinWaitClose", "SendMessage"}

\* a command that reports failure through ErrorLevel: it fails with `code` when
\* its target is absent, and may fail for reasons of its own when it is there
MayFail(a, d, c, code, r) ==
    IF Matches(a, d, c.q) = {} THEN {AhkResult(a, d, AhkError(code))}
    ELSE {AhkResult(a, d, Returned(r)), AhkFault(a, d, code)}

CloseWin(d, w) ==
    [exists |-> d.exists \ {w}, active |-> IF d.active = w THEN 0 ELSE d.active]
CloseAll(d, S) ==
    [exists |-> d.exists \ S, active |-> IF d.active \in S THEN 0 ELSE d.active]

AhkImmediate(c, a, d) ==
    CASE c.cmd = "WinExist" ->
            LET w == FirstMatch(a, d, c.q) IN {AhkResult(Found(a, w), d, Returned(PyInt(w)))}
      [] c.cmd = "WinActive" ->
            LET w == ActiveMatch(a, d, c.q) IN {AhkResult(Found(a, w), d, Returned(PyInt(w)))}
      [] c.cmd = "WinGet" /\ c.sub = "IDLast" ->
            {AhkResult(a, d, Returned(PyInt(LastMatch(a, d, c.q))))}
      [] c.cmd = "WinGet" /\ c.sub = "Count" ->
            {AhkResult(a, d, Returned(PyInt(Cardinality(Matches(a, d, c.q)))))}
      [] c.cmd = "WinGet" /\ c.sub = "List" ->
            LET m == Matches(a, d, c.q) IN
            {[AhkResult(a, d, Returned(PyList(Cardinality(m)))) EXCEPT !.items = FrontToBack(m)]}
      [] c.cmd = "GroupAdd" ->
            {AhkResult([a EXCEPT !.groups = @ \cup {[name |-> c.group, q |-> c.q, by |-> c.self, obj |-> c.arg]}],
                       d, Returned(PyNone))}
      [] c.cmd = "WinClose" /\ IsGroupQuery(c.q) ->
            \* every window of the group is asked to close; they all do or none does
            LET m == Matches(a, d, c.q) IN
            IF m = {} THEN {AhkResult(a, d, Returned(PyNone))}
            ELSE {AhkResult(a, CloseAll(d, m), Returned(PyNone)),
                  [AhkResult(a, d, Returned(PyNone)) EXCEPT !.expired = c.tmo >= 0]}
      [] c.cmd = "WinClose" ->
            \* the window may ignore the request; with a timeout the command
            \* has then waited for it in vain
            LET w == FirstMatch(a, d, c.q) IN
            IF w = 0 THEN {AhkResult(a, d, Returned(PyNone))}
            ELSE {AhkResult(a, CloseWin(d, w), Returned(PyNone)),
                  [AhkResult(a, d, Returned(PyNone)) EXCEPT !.expired = c.tmo >= 0]}
      [] c.cmd = "WinHide" ->
            {AhkResult(a, d, Returned(PyNone))}
      [] c.cmd = "WinGet" /\ c.sub = "ExStyle" ->
            LET w == FirstMatch(a, d, c.q) IN
            {AhkResult(a, d, Returned(IF w = 0 THEN PyStr(0) ELSE PyInt(WinExStyle(w))))}
      [] c.cmd = "WinGetClass" ->
            LET w == FirstMatch(a, d, c.q) IN
            {AhkResult(a, d, Returned(PyStr(IF w = 0 THEN 0 ELSE ClassIndex(w))))}
      [] c.cmd = "ControlSend" -> MayFail(a, d, c, "1", PyNone)
      [] c.cmd = "Control" -> MayFail(a, d, c, "1", PyNone)
      [] c.cmd = "ControlGet" /\ c.sub = "List Count" ->
            MayFail(a, d, c, "1", PyInt(CtlItemCount(FirstMatch(a, d, c.q))))
      [] c.cmd = "ControlGet" /\ c.sub = "LineCount" ->
            MayFail(a, d, c, "1", PyInt(CtlLineCount(FirstMatch(a, d, c.q))))
      [] c.cmd = "ControlGet" /\ c.sub = "List Count Col" ->
            MayFail(a, d, c, "1", PyInt(1))
      [] c.cmd = "ControlGet" /\ c.sub = "Hwnd" ->
            \* the window's control, or a failure when it has no such control
            MayFail(a, d, c, "1", PyInt(NumWins + 1))
      [] c.cmd = "PostMessage" -> MayFail(a, d, c, "1", PyInt(0))
      [] c.cmd = "ControlGet" /\ c.sub = "Line" ->
            \* a line number past the end is a failure
            IF Matches(a, d, c.q) # {} /\ c.arg > CtlLineCount(FirstMatch(a, d, c.q))
            THEN {AhkFault(a, d, "1")}
            ELSE MayFail(a, d, c, "1", PyStr(3))
      [] c.cmd = "WinActivate" ->
            \* the first match comes to the front, unless it does not take the focus
            LET w == FirstMatch(a, d, c.q) IN
            IF w \notin WinIds THEN {AhkResult(a, d, Returned(PyNone))}
            ELSE {AhkResult(a, [d EXCEPT !.active = w], Returned(PyNone)),
                  AhkResult(a, d, Returned(PyNone))}
      [] OTHER -> {AhkResult(a, d, Returned(PyNone))}

\* a blocked command returns 0 once its condition holds, or 1 when a given
\* timeout (tmo >= 0) expires first; WinWaitNotActive finds no window, so it
\* may or may not have refreshed the Last Found Window.
AhkWake(c, a, d) ==
    LET m == Matches(a, d, c.q)
        ok == Returned(PyInt(0))
        expired == IF c.tmo >= 0
                   THEN {[AhkResult(a, d, Returned(PyInt(1))) EXCEPT !.expired = TRUE]} ELSE {}
    IN CASE c.cmd = "WinWait" ->
                IF m # {} THEN {AhkFound(Found(a, SetMin(m)), d, ok, SetMin(m))} ELSE expired
         [] c.cmd = "WinWaitActive" ->
                IF ActiveMatch(a, d, c.q) # 0
                THEN {AhkFound(Found(a, d.active), d, ok, d.active)} ELSE expired
         [] c.cmd = "WinWaitNotActive" ->
                IF ActiveMatch(a, d, c.q) = 0
                THEN {AhkFound(a, d, ok, FirstMatch(a, d, c.q)),
                      AhkFound(Found(a, FirstMatch(a, d, c.q)), d, ok, FirstMatch(a, d, c.q))}
                ELSE expired
         [] c.cmd = "WinWaitClose" ->
                IF m = {} THEN {AhkResult(a, d, ok)} ELSE expired
         [] c.cmd = "SendMessage" ->
                \* the reply, a failure to send, or no reply within the timeout
                IF m = {} THEN {AhkResult(a, d, AhkError("FAIL"))}
                ELSE {AhkResult(a, d, Returned(PyInt(CtlItemCount(SetMin(m))))),
                      AhkFault(a, d, "FAIL"),
                      [AhkResult(a, d, AhkError("FAIL")) EXCEPT !.expired = TRUE]}
         [] OTHER -> {}

\* ---------------------------------------------- commands on window properties
\* the messages that list controls answer
CB_FINDSTRINGEXACT == 344
CB_GETCOUNT == 326
CB_GETCURSEL == 327
LB_FINDSTRINGEXACT == 418
LB_GETCOUNT == 395
LB_GETCURSEL == 392
\* controls of the classes ListBox, SysListView32 and ComboBox keep a list;
\* a list view has one column, the others none to ask for
HasList(class) == class \in {1, 2, 4}
ColumnCount(class) == IF class = 2 THEN 1 ELSE 0
PyDict(n) == [k |-> "dict", v |-> n]
PyTuple(n) == [k |-> "tuple", v |-> n]
Blank == PyStr(0)
\* a style with one bit set or cleared
WithBit(style, bit, on) ==
    IF on THEN (IF HasBit(style, bit) THEN style ELSE style + bit)
    ELSE (IF HasBit(style, bit) THEN style - bit ELSE style)
\* WinMove and ControlMove: a blank parameter leaves that field as it is
Moved(rect, params) == [i \in 1..4 |-> IF params[i] = Blank THEN rect[i] ELSE params[i].v]

\* the answers to command c when the backend keeps p of the windows: pairs of
\* an answer and the properties after the command.  The commands that report
\* failure through ErrorLevel (ControlMove, Control, ControlGet,
\* ControlGetText) fail with 1 on an absent target and may fail on a present
\* one; the others do nothing or answer blank on an absent target.
AhkCommand(c, a, d, p) ==
    LET w == FirstMatch(a, d, c.q)
        ok(r, q) == <<AhkResult(a, d, Returned(r)), q>>
        failing(r, q) ==
            IF w = 0 THEN {<<AhkResult(a, d, AhkError("1")), p>>}
            ELSE {ok(r, q), <<AhkFault(a, d, "1"), p>>}
    IN CASE c.cmd \in {"WinGetPos", "ControlGetPos"} ->
            {<<[AhkResult(a, d, Returned(PyDict(4))) EXCEPT
                    !.rect = IF w = 0 THEN <<Blank, Blank, Blank, Blank>>
                             ELSE [i \in 1..4 |-> PyInt(p.rect[w][i])]], p>>}
      [] c.cmd = "WinMove" ->
            {ok(PyNone, IF w = 0 THEN p ELSE [p EXCEPT !.rect[w] = Moved(@, c.params)])}
      [] c.cmd = "ControlMove" ->
            failing(PyNone, IF w = 0 THEN p ELSE [p EXCEPT !.rect[w] = Moved(@, c.params)])
      [] c.cmd = "WinGet" /\ c.sub = "Style" ->
            {ok(IF w = 0 THEN Blank ELSE PyInt(p.style[w]), p)}
      [] c.cmd = "ControlGet" /\ c.sub = "Style" ->
            failing(IF w = 0 THEN Blank ELSE PyInt(p.style[w]), p)
      [] c.cmd = "WinSet" /\ c.sub = "Style" ->
            {ok(PyNone, IF w = 0 THEN p ELSE [p EXCEPT !.style[w] = c.arg])}
      [] c.cmd = "WinSet" /\ c.sub \in {"Enable", "Disable"} ->
            {ok(PyNone, IF w = 0 THEN p
                        ELSE [p EXCEPT !.style[w] = WithBit(@, DISABLED, c.sub = "Disable")])}
      [] c.cmd \in {"WinShow", "WinHide"} ->
            {ok(PyNone, IF w = 0 THEN p
                        ELSE [p EXCEPT !.style[w] = WithBit(@, VISIBLE, c.cmd = "WinShow")])}
      [] c.cmd = "Control" /\ c.sub \in {"Enable", "Disable"} ->
            failing(PyNone, IF w = 0 THEN p
                            ELSE [p EXCEPT !.style[w] = WithBit(@, DISABLED, c.sub = "Disable")])
      [] c.cmd = "Control" /\ c.sub \in {"Show", "Hide"} ->
            failing(PyNone, IF w = 0 THEN p
                            ELSE [p EXCEPT !.style[w] = WithBit(@, VISIBLE, c.sub = "Show")])
      [] c.cmd = "WinGetClass" ->
            {ok(PyStr(IF w = 0 THEN 0 ELSE p.class[w]), p)}
      [] c.cmd = "ControlGet" /\ c.sub = "Choice" ->
            \* fails as well when no entry is selected
            IF w # 0 /\ p.sel[w] < 0 THEN {<<AhkResult(a, d, AhkError("1")), p>>}
            ELSE failing(PyStr(StrIndex(<<"t">>)), p)
      [] c.cmd = "ControlGet" /\ c.sub \in {"List", "List Col"} ->
            \* fails as well on a control that keeps no list, and for a column
            \* the list view does not have
            IF w # 0 /\ (~HasList(p.class[w]) \/ (c.sub = "List Col" /\ c.arg > ColumnCount(p.class[w])))
            THEN {<<AhkResult(a, d, AhkError("1")), p>>}
            ELSE failing(PyList(IF w = 0 THEN 0 ELSE CtlItemCount(w)), p)
      [] c.cmd = "ControlGet" /\ c.sub = "List Count Col" ->
            failing(PyInt(IF w = 0 THEN 0 ELSE ColumnCount(p.class[w])), p)
      [] c.cmd = "Control" /\ c.sub = "Choose" ->
            \* fails as well when the list has no Nth entry
            IF w # 0 /\ (c.arg < 1 \/ c.arg > CtlItemCount(w))
            THEN {<<AhkResult(a, d, AhkError("1")), p>>}
            ELSE failing(PyNone, IF w = 0 THEN p ELSE [p EXCEPT !.sel[w] = c.arg - 1])
      [] c.cmd = "WinGetTitle" ->
            {ok(IF w = 0 THEN Blank ELSE PyStr(StrIndex(p.title[w])), p)}
      [] c.cmd = "ControlGetText" ->
            failing(IF w = 0 THEN Blank ELSE PyStr(StrIndex(p.text[w])), p)
      [] c.cmd = "WinGet" /\ c.sub = "PID" ->
            {ok(IF w = 0 THEN Blank ELSE PyInt(WinPid(w)), p)}
      [] c.cmd = "WinGet" /\ c.sub \in {"ProcessName", "ProcessPath"} ->
            {ok(IF w = 0 THEN Blank ELSE PyStr(ClassIndex(w)), p)}
      [] c.cmd = "WinGet" /\ c.sub = "Transparent" ->
            \* blank as well when the window has no transparency level
            {ok(IF w = 0 \/ p.opacity[w] < 0 THEN Blank ELSE PyInt(p.opacity[w]), p)}
      [] c.cmd = "WinSet" /\ c.sub = "Transparent" ->
            {ok(PyNone, IF w = 0 THEN p ELSE [p EXCEPT !.opacity[w] = c.arg])}
      [] OTHER -> {<<r, p>> : r \in AhkImmediate(c, a, d)}

\* the answers to a blocked command: SendMessage replies with what the control
\* keeps, the selected entry to *_GETCURSEL and the entry found or -1 to
\* *_FINDSTRINGEXACT
AhkReply(c, a, d, p) ==
    LET w == FirstMatch(a, d, c.q)
        replies == IF c.arg \in {CB_GETCURSEL, LB_GETCURSEL} THEN {p.sel[w]} ELSE {-1, 0}
    IN IF c.cmd = "SendMessage"
          /\ c.arg \in {CB_GETCURSEL, LB_GETCURSEL, CB_FINDSTRINGEXACT, LB_FINDSTRINGEXACT}
       THEN UNION {IF r.res.raised THEN {r} ELSE {[r EXCEPT !.res = Returned(PyInt(v))] : v \in replies} :
                    r \in AhkWake(c, a, d)}
       ELSE AhkWake(c, a, d)

\* ----------------------------------------------------------------- state
VARIABLES
    desktop,    \* [exists, active]: the windows on screen and the focused one
    ahk,        \* the backend's session state
    lockOwner,  \* thread holding global_ahk_lock, 0 when free
    lockDepth,  \* how many times the owner has acquired it
    pc,         \* where each thread is
    op,         \* the operation each thread is running
    frame,      \* the _call in progress: receiver, command, arguments
    stk,        \* return addresses of the calls in progress
    val,        \* outcome of the last call that returned
    out,        \* outcome of the operation
    cmdlog,     \* backend commands the operation has issued
    loc,        \* the operation's local variable
    nOps,       \* calls each thread may still start
    nEnv,       \* desktop changes the outside world may still make
    settings,   \* the Settings objects, each thread's current one, the open scopes
    props       \* what the backend keeps of each window: rectangle, style bits

vars == <<desktop, ahk, lockOwner, lockDepth, pc, op, frame, stk, val, out, cmdlog, loc, nOps, nEnv, settings, props>>

NoTimeout == -1
Timeouts == {NoTimeout, 0, 1}

\* `timeout or ""`: None and 0 both become the blank parameter
TimeoutOrBlank(tmo) == IF tmo = NoTimeout \/ tmo = 0 THEN NoTimeout ELSE tmo

NoFrame ==
    [cls |-> "", self |-> DefaultWindows, id |-> 0, cmd |-> "", sub |-> "", arg |-> 0,
     q |-> Windows__query(DefaultWindows), tmo |-> NoTimeout, set_delay |-> FALSE,
     hidden_windows |-> TRUE, title_mode |-> "", group |-> <<>>, params |-> <<>>]

NoOp ==
    [name |-> "", cls |-> "", self |-> DefaultWindows, id |-> 0, tmo |-> NoTimeout, arg |-> 0,
     existed |-> FALSE]

\* filter arguments as a caller passes them; `flag` is the boolean of the
\* include_* and match_text_slow methods
NoArgs ==
    [title |-> UNSET, class_name |-> UNSET, id |-> UNSET, pid |-> UNSET, exe |-> UNSET,
     text |-> UNSET, match |-> UNSET, flag |-> TRUE]

\* local variables of the methods in progress
NoLocals ==
    [index |-> 0, msg |-> 0, tmo |-> 0, opt |-> "", err |-> NoOutcome, cerr |-> NoOutcome,
     \* what the backend did for this operation: the window its last wait
     \* matched, the code of a failure on a present target, an expired timeout
     matched |-> 0, fault |-> "", expired |-> FALSE,
     \* the windows a list query returned and those handed to the caller so far
     items |-> <<>>, yielded |-> <<>>,
     \* the X, Y, Width and Height the last position query put in its output
     \* variables, and what the backend kept of each window when the method began
     rect |-> <<>>, props |-> InitProps,
     \* the x, y, width and height a caller or a setter hands to move()
     margs |-> <<>>,
     \* a result kept while another call runs
     res |-> NoOutcome,
     \* the messages the operation has sent with send_message
     msgs |-> <<>>,
     \* the filter arguments of the call and the receiver's fields before it
     args |-> NoArgs, before |-> DefaultWindows]

Noted(l, r) ==
    [l EXCEPT !.matched = IF r.found # 0 THEN r.found ELSE @,
              !.fault = IF r.fault # "" THEN r.fault ELSE @,
              !.expired = @ \/ r.expired,
              !.items = r.items,
              !.rect = r.rect]

\* Settings objects live in settings.heap and are named by their index;
\* object 1 is default_settings, which set_settings(default_settings) makes the
\* current settings of the importing thread (thread 1). Delays in milliseconds.
default_settings == [win_delay |-> 100, key_delay |-> 10, key_duration |-> -1, control_delay |-> 20]
InitSettings ==
    [heap |-> <<default_settings>>,
     cur |-> [t \in Threads |-> IF t = 1 THEN 1 ELSE 0],
     scopes |-> [t \in Threads |-> <<>>],
     mgrs |-> <<>>,
     raising |-> [t \in Threads |-> FALSE]]
\* get_settings() read for its field values: a thread with no settings of its
\* own yet gets a copy of default_settings
get_settings(t) == settings.heap[IF settings.cur[t] = 0 THEN 1 ELSE settings.cur[t]]

\* ------------------------------------------------------------ global_ahk_lock
\* a lock that its owner cannot acquire again
LockFree_to_others(t) == lockOwner = 0
\* the lock is re-entrant: free for a thread when no other thread owns it
LockFree(t) == lockOwner \in {0, t}
Acquire(t) == lockOwner' = t /\ lockDepth' = lockDepth + 1
Release(t) ==
    IF lockOwner = t
    THEN /\ lockDepth' = lockDepth - 1
         /\ lockOwner' = IF lockDepth = 1 THEN 0 ELSE t
    ELSE UNCHANGED <<lockOwner, lockDepth>>

\* ------------------------------------------------------------------ helpers
Goto(t, p) == pc' = [pc EXCEPT ![t] = p]
Issue(t, name, arg) == cmdlog' = [cmdlog EXCEPT ![t] = Append(@, <<name, arg>>)]
Push(t, ret) == stk' = [stk EXCEPT ![t] = <<ret>> \o @]
\* return v to the caller on top of the stack
Return(t, v) ==
    /\ val' = [val EXCEPT ![t] = v]
    /\ pc' = [pc EXCEPT ![t] = Head(stk[t])]
    /\ stk' = [stk EXCEPT ![t] = Tail(@)]
\* the operation is over with outcome o
Finish(t, o) ==
    /\ out' = [out EXCEPT ![t] = o]
    /\ pc' = [pc EXCEPT ![t] = "done"]

WindowsFrame(self, cmd, sub, q, tmo, delay) ==
    [cls |-> "Windows", self |-> self, id |-> 0, cmd |-> cmd, sub |-> sub, arg |-> 0, q |-> q,
     tmo |-> tmo, set_delay |-> delay, hidden_windows |-> self.hidden_windows,
     title_mode |-> self.title_mode, group |-> <<>>, params |-> <<>>]

\* specs the callers use: the default spec, a title prefix, a spec over hidden
\* windows, a hidden window named by id, a text constraint, the excluded
\* sentinel in an include and in an exclude field, and a spec constructed
\* with a text mode that does not exist
SpecSet ==
    {DefaultWindows,
     [DefaultWindows EXCEPT !.title = Val(<<"a">>)],
     [DefaultWindows EXCEPT !.title = Val(<<"b">>), !.hidden_windows = TRUE, !.title_mode = "contains"],
     [DefaultWindows EXCEPT !.id = Val(2), !.hidden_windows = TRUE],
     [DefaultWindows EXCEPT !.text = Val(<<"h">>), !.hidden_text = FALSE, !.text_mode = "slow"],
     [DefaultWindows EXCEPT !.title = None],
     [DefaultWindows EXCEPT !.exclude_title = None],
     [DefaultWindows EXCEPT !.exclude_title = Val(<<"a">>)],
     [DefaultWindows EXCEPT !.text_mode = "medium"]}

\* an idle thread starts operation `name` on spec `self`
Begin(t, name, self, id, tmo, first) ==
    /\ pc[t] = "idle"
    /\ nOps[t] > 0
    /\ nOps' = [nOps EXCEPT ![t] = @ - 1]
    /\ op' = [op EXCEPT ![t] = [name |-> name, cls |-> "Windows", self |-> self, id |-> id,
                                 tmo |-> tmo, arg |-> 0, existed |-> FALSE]]
    /\ pc' = [pc EXCEPT ![t] = first]

\* self._call(...) with the continuation ret
Call(t, fr, ret) ==
    /\ frame' = [frame EXCEPT ![t] = fr]
    /\ stk' = [stk EXCEPT ![t] = <<ret>> \o @]

\* ------------------------------------------------- refining a Windows spec
\* A refining call answers with the receiver itself or with a new object; the
\* outcome also says what the receiver's fields are after the call.
Refined(receiver, result, same) ==
    [raised |-> FALSE, receiver |-> receiver, result |-> result, same |-> same]
RefineRaised(receiver) ==
    [raised |-> TRUE, receiver |-> receiver, result |-> receiver, same |-> FALSE]

\* converters.default(value, default_value, none=UNSET)
default(value, default_value) == IF value # UNSET THEN value ELSE default_value

AllUnset(a) ==
    /\ a.title = UNSET /\ a.class_name = UNSET /\ a.id = UNSET /\ a.pid = UNSET
    /\ a.exe = UNSET /\ a.text = UNSET /\ a.match = UNSET
InvalidMatch(a) ==
    a.match # UNSET /\ (IF a.match = None THEN TRUE ELSE a.match.v \notin TITLE_MATCH_MODES)

\* a filter that writes the arguments into the receiver
Windows_filter_in_place(self, a) ==
    IF AllUnset(a) \/ InvalidMatch(a) THEN Refined(self, self, TRUE)
    ELSE LET new == [self EXCEPT !.title = default(a.title, self.title),
                                 !.text = default(a.text, self.text)]
         IN Refined(new, new, TRUE)

\* a filter without the shortcut for a call with no arguments
Windows_filter_always_replaces(self, a) ==
    IF InvalidMatch(a) THEN RefineRaised(self)
    ELSE Refined(self,
                 [self EXCEPT !.title = default(a.title, self.title),
                              !.class_name = default(a.class_name, self.class_name),
                              !.id = default(a.id, self.id),
                              !.pid = default(a.pid, self.pid),
                              !.exe = default(a.exe, self.exe),
                              !.text = default(a.text, self.text),
                              !.title_mode = IF a.match # UNSET THEN a.match.v ELSE self.title_mode],
                 FALSE)

\* a filter that takes None for an omitted argument
Windows_filter_drops_none(self, a) ==
    IF AllUnset(a) THEN Refined(self, self, TRUE)
    ELSE IF InvalidMatch(a) THEN RefineRaised(self)
    ELSE Refined(self,
                 [self EXCEPT !.title = IF a.title = None THEN self.title ELSE default(a.title, self.title),
                              !.class_name = default(a.class_name, self.class_name),
                              !.id = default(a.id, self.id),
                              !.pid = default(a.pid, self.pid),
                              !.exe = default(a.exe, self.exe),
                              !.text = default(a.text, self.text),
                              !.title_mode = IF a.match # UNSET THEN a.match.v ELSE self.title_mode],
                 FALSE)

\* a filter that does not look at `match`
Windows_filter_unvalidated(self, a) ==
    IF AllUnset(a) THEN Refined(self, self, TRUE)
    ELSE Refined(self,
                 [self EXCEPT !.title = default(a.title, self.title),
                              !.class_name = default(a.class_name, self.class_name),
                              !.id = default(a.id, self.id),
                              !.pid = default(a.pid, self.pid),
                              !.exe = default(a.exe, self.exe),
                              !.text = default(a.text, self.text),
                              !.title_mode = IF a.match = UNSET THEN self.title_mode
                                             ELSE IF a.match = None THEN "None" ELSE a.match.v],
                 FALSE)

\* Windows.filter: return self | raise ValueError | dc.replace(self, ...)
Windows_filter(self, a) ==
    IF AllUnset(a) THEN Refined(self, self, TRUE)
    ELSE IF InvalidMatch(a) THEN RefineRaised(self)
    ELSE Refined(self,
                 [self EXCEPT !.title = default(a.title, self.title),
                              !.class_name = default(a.class_name, self.class_name),
                              !.id = default(a.id, self.id),
                              !.pid = default(a.pid, self.pid),
                              !.exe = default(a.exe, self.exe),
                              !.text = default(a.text, self.text),
                              !.title_mode = IF a.match # UNSET THEN a.match.v ELSE self.title_mode],
                 FALSE)

\* Windows.exclude(title, text)
Windows_exclude(self, a) ==
    IF a.title = UNSET /\ a.text = UNSET THEN Refined(self, self, TRUE)
    ELSE Refined(self,
                 [self EXCEPT !.exclude_title = default(a.title, self.exclude_title),
                              !.exclude_text = default(a.text, self.exclude_text)],
                 FALSE)

Windows_include_hidden_windows(self, a) == Refined(self, [self EXCEPT !.hidden_windows = a.flag], FALSE)
Windows_exclude_hidden_windows(self, a) == Refined(self, [self EXCEPT !.hidden_windows = FALSE], FALSE)
Windows_include_hidden_text(self, a) == Refined(self, [self EXCEPT !.hidden_text = a.flag], FALSE)
Windows_exclude_hidden_text(self, a) == Refined(self, [self EXCEPT !.hidden_text = FALSE], FALSE)
Windows_match_text_slow(self, a) ==
    Refined(self, [self EXCEPT !.text_mode = IF a.flag THEN "slow" ELSE "fast"], FALSE)

\* ------------------------------------------------------------ Windows._call
Excluded(self) ==
    \/ self.title = None \/ self.class_name = None \/ self.id = None
    \/ self.pid = None \/ self.exe = None \/ self.text = None

Windows_call(t) ==
    /\ pc[t] = "W_call"
    /\ IF Excluded(frame[t].self)
       THEN Return(t, Returned(PyNone))
       ELSE Goto(t, "W_lock") /\ UNCHANGED <<val, stk>>
    /\ UNCHANGED <<desktop, ahk, lockOwner, lockDepth, op, frame, out, cmdlog, loc, nOps, nEnv, settings, props>>

\* the configuration writes and the command without `with global_ahk_lock`
Windows_call_lock_unlocked(t) ==
    /\ pc[t] = "W_lock"
    /\ Goto(t, "W_hidden_windows")
    /\ UNCHANGED <<desktop, ahk, lockOwner, lockDepth, op, frame, stk, val, out, cmdlog, loc, nOps, nEnv, settings, props>>

Windows_call_lock(t) ==
    /\ pc[t] = "W_lock"
    /\ LockFree(t)
    /\ Acquire(t)
    /\ Goto(t, "W_hidden_windows")
    /\ UNCHANGED <<desktop, ahk, op, frame, stk, val, out, cmdlog, loc, nOps, nEnv, settings, props>>

OnOff(b) == IF b THEN "On" ELSE "Off"

\* DetectHiddenText left out of the sequence
Windows_call_hidden_windows_only(t) ==
    /\ pc[t] = "W_hidden_windows"
    /\ Issue(t, "DetectHiddenWindows", OnOff(frame[t].self.hidden_windows))
    /\ ahk' = [ahk EXCEPT !.DetectHiddenWindows = OnOff(frame[t].self.hidden_windows)]
    /\ Goto(t, "W_title_mode")
    /\ UNCHANGED <<desktop, lockOwner, lockDepth, op, frame, stk, val, out, loc, nOps, nEnv, settings, props>>

Windows_call_hidden_windows(t) ==
    /\ pc[t] = "W_hidden_windows"
    /\ LET self == frame[t].self IN
        /\ Issue(t, "DetectHiddenWindows", OnOff(self.hidden_windows))
        /\ ahk' = [ahk EXCEPT !.DetectHiddenWindows = OnOff(self.hidden_windows)]
        /\ Goto(t, IF self.text # UNSET \/ self.exclude_text # UNSET
                   THEN "W_hidden_text" ELSE "W_title_mode")
    /\ UNCHANGED <<desktop, lockOwner, lockDepth, op, frame, stk, val, out, loc, nOps, nEnv, settings, props>>

Windows_call_hidden_text(t) ==
    /\ pc[t] = "W_hidden_text"
    /\ Issue(t, "DetectHiddenText", OnOff(frame[t].self.hidden_text))
    /\ ahk' = [ahk EXCEPT !.DetectHiddenText = OnOff(frame[t].self.hidden_text)]
    /\ Goto(t, "W_title_mode")
    /\ UNCHANGED <<desktop, lockOwner, lockDepth, op, frame, stk, val, out, loc, nOps, nEnv, settings, props>>

\* _set_title_match_mode: the SetTitleMatchMode argument of a mode, "" if invalid
TitleModeArg(title_mode) ==
    CASE title_mode = "startswith" -> "1"
      [] title_mode = "contains" -> "2"
      [] title_mode = "exact" -> "3"
      [] title_mode = "regex" -> "regex"
      [] OTHER -> ""

Windows_call_title_mode(t) ==
    /\ pc[t] = "W_title_mode"
    /\ LET m == TitleModeArg(frame[t].self.title_mode) IN
        IF m # ""
        THEN /\ Issue(t, "SetTitleMatchMode", m)
             /\ ahk' = [ahk EXCEPT !.TitleMatchMode = m]
             /\ Goto(t, "W_text_mode")
             /\ UNCHANGED val
        ELSE /\ val' = [val EXCEPT ![t] = Raised("ValueError", "not a valid title match mode")]
             /\ Goto(t, "W_unlock")
             /\ UNCHANGED <<ahk, cmdlog>>
    /\ UNCHANGED <<desktop, lockOwner, lockDepth, op, frame, stk, out, loc, nOps, nEnv, settings, props>>

Windows_call_text_mode(t) ==
    /\ pc[t] = "W_text_mode"
    /\ LET m == frame[t].self.text_mode IN
        IF m \in TEXT_MATCH_MODES
        THEN /\ Issue(t, "SetTitleMatchMode", m)
             /\ ahk' = [ahk EXCEPT !.TitleMatchSpeed = m]
             /\ Goto(t, IF frame[t].set_delay THEN "W_delay" ELSE "W_cmd")
             /\ UNCHANGED val
        ELSE /\ val' = [val EXCEPT ![t] = Raised("ValueError", "not a valid text match mode")]
             /\ Goto(t, "W_unlock")
             /\ UNCHANGED <<ahk, cmdlog>>
    /\ UNCHANGED <<desktop, lockOwner, lockDepth, op, frame, stk, out, loc, nOps, nEnv, settings, props>>

Windows_call_delay(t) ==
    /\ pc[t] = "W_delay"
    /\ Issue(t, "SetWinDelay", "")
    /\ ahk' = [ahk EXCEPT !.WinDelay = optional_ms(get_settings(t).win_delay)]
    /\ Goto(t, "W_cmd")
    /\ UNCHANGED <<desktop, lockOwner, lockDepth, op, frame, stk, val, out, loc, nOps, nEnv, settings, props>>

\* ahk_call(cmd, *args): the command is sent; a blocking one keeps the thread
\* inside ahk_call until the backend answers
Windows_call_cmd(t) ==
    /\ pc[t] = "W_cmd"
    /\ Issue(t, frame[t].cmd, frame[t].sub)
    /\ IF Blocking(frame[t])
       THEN Goto(t, "W_block") /\ UNCHANGED <<ahk, desktop, val, loc>>
       ELSE \E r \in AhkImmediate(frame[t], ahk, desktop) :
                /\ ahk' = r.a
                /\ desktop' = r.d
                /\ val' = [val EXCEPT ![t] = r.res]
                /\ loc' = [loc EXCEPT ![t] = Noted(@, r)]
                /\ Goto(t, "W_unlock")
    /\ UNCHANGED <<lockOwner, lockDepth, op, frame, stk, out, nOps, nEnv, settings, props>>

Windows_call_wake(t) ==
    /\ pc[t] = "W_block"
    /\ \E r \in AhkWake(frame[t], ahk, desktop) :
        /\ ahk' = r.a
        /\ desktop' = r.d
        /\ val' = [val EXCEPT ![t] = r.res]
        /\ loc' = [loc EXCEPT ![t] = Noted(@, r)]
        /\ Goto(t, "W_unlock")
    /\ UNCHANGED <<lockOwner, lockDepth, op, frame, stk, out, cmdlog, nOps, nEnv, settings, props>>

\* leaving the with block, by return or by exception
Windows_call_unlock(t) ==
    /\ pc[t] = "W_unlock"
    /\ Release(t)
    /\ pc' = [pc EXCEPT ![t] = Head(stk[t])]
    /\ stk' = [stk EXCEPT ![t] = Tail(@)]
    /\ UNCHANGED <<desktop, ahk, op, frame, val, out, cmdlog, loc, nOps, nEnv, settings, props>>

\* ------------------------------------------------------- Windows operations
Quiet == UNCHANGED <<desktop, ahk, lockOwner, lockDepth>>

\* `self._call(...) or 0` wrapped in Window()
WindowOr0(v) == PyWindow(IF Truthy(v) THEN v.v ELSE 0)

\* an exception of the last call propagates, otherwise the result is f
Propagate(t, result) == IF val[t].raised THEN val[t] ELSE Returned(result)

Windows_exist(t, specs) ==
    /\ \E self \in specs :
        /\ Begin(t, "Windows.exist", self, 0, NoTimeout, "W_call")
        /\ Call(t, WindowsFrame(self, "WinExist", "", Windows__query(self), NoTimeout, FALSE), "exist_ret")
    /\ Quiet /\ UNCHANGED <<val, out, cmdlog, loc, nEnv, settings, props>>

Windows_exist_ret(t) ==
    /\ pc[t] = "exist_ret"
    /\ Finish(t, Propagate(t, WindowOr0(val[t].val)))
    /\ Quiet /\ UNCHANGED <<op, frame, stk, val, cmdlog, loc, nOps, nEnv, settings, props>>

Windows_last(t, specs) ==
    /\ \E self \in specs :
        /\ Begin(t, "Windows.last", self, 0, NoTimeout, "W_call")
        /\ Call(t, WindowsFrame(self, "WinGet", "IDLast", Windows__query(self), NoTimeout, FALSE), "exist_ret")
    /\ Quiet /\ UNCHANGED <<val, out, cmdlog, loc, nEnv, settings, props>>

\* a get_active that sends the query of the spec as it is, blank or not
Windows_get_active_plain(t, specs) ==
    /\ \E self \in specs :
        /\ Begin(t, "Windows.get_active", self, 0, NoTimeout, "W_call")
        /\ Call(t, WindowsFrame(self, "WinActive", "", Windows__query(self), NoTimeout, FALSE), "exist_ret")
    /\ Quiet /\ UNCHANGED <<val, out, cmdlog, loc, nEnv, settings, props>>

\* Windows.get_active: the blank query is replaced by "A"
Windows_get_active(t, specs) ==
    /\ \E self \in specs :
        LET query == IF BlankQuery(Windows__query(self)) THEN ActiveQuery ELSE Windows__query(self) IN
        /\ Begin(t, "Windows.get_active", self, 0, NoTimeout, "W_call")
        /\ Call(t, WindowsFrame(self, "WinActive", "", query, NoTimeout, FALSE), "exist_ret")
    /\ Quiet /\ UNCHANGED <<val, out, cmdlog, loc, nEnv, settings, props>>

Windows_len(t, specs) ==
    /\ \E self \in specs :
        /\ Begin(t, "Windows.__len__", self, 0, NoTimeout, "W_call")
        /\ Call(t, WindowsFrame(self, "WinGet", "Count", Windows__query(self), NoTimeout, FALSE), "len_ret")
    /\ Quiet /\ UNCHANGED <<val, out, cmdlog, loc, nEnv, settings, props>>

Windows_len_ret(t) ==
    /\ pc[t] = "len_ret"
    /\ Finish(t, Propagate(t, PyInt(IF Truthy(val[t].val) THEN val[t].val.v ELSE 0)))
    /\ Quiet /\ UNCHANGED <<op, frame, stk, val, cmdlog, loc, nOps, nEnv, settings, props>>

\* Windows.__iter__ is a generator: iter(spec) creates it without running it
Windows_iter(t, specs) ==
    /\ \E self \in specs :
        Begin(t, "Windows.__iter__", self, 0, NoTimeout, "iter_created")
    /\ Quiet /\ UNCHANGED <<frame, stk, val, out, cmdlog, loc, nEnv, settings, props>>

\* the first next(): win_ids = self._call("WinGet", "List", *self._query())
Windows_iter_start(t) ==
    /\ pc[t] = "iter_created"
    /\ Call(t, WindowsFrame(op[t].self, "WinGet", "List", Windows__query(op[t].self), NoTimeout, FALSE),
            "iter_list")
    /\ Goto(t, "W_call")
    /\ Quiet /\ UNCHANGED <<op, val, out, cmdlog, loc, nOps, nEnv, settings, props>>

\* if win_ids is None: return
Windows_iter_list(t) ==
    /\ pc[t] = "iter_list"
    /\ IF val[t].raised THEN Finish(t, val[t])
       ELSE IF val[t].val = PyNone THEN Finish(t, Returned(PyList(0)))
       ELSE Goto(t, "iter_loop") /\ UNCHANGED out
    /\ Quiet /\ UNCHANGED <<op, frame, stk, val, cmdlog, loc, nOps, nEnv, settings, props>>

\* for win_id in win_ids.values(): yield Window(win_id)
Windows_iter_yield(t) ==
    /\ pc[t] = "iter_loop"
    /\ LET n == Len(loc[t].yielded) IN
        IF n < Len(loc[t].items)
        THEN /\ loc' = [loc EXCEPT ![t].yielded = Append(@, loc[t].items[n + 1])]
             /\ Goto(t, "iter_suspended")
             /\ UNCHANGED out
        ELSE /\ Finish(t, Returned(PyList(n)))
             /\ UNCHANGED loc
    /\ Quiet /\ UNCHANGED <<op, frame, stk, val, cmdlog, nOps, nEnv, settings, props>>

\* the caller has used the item and asks for the next one
Windows_iter_next(t) ==
    /\ pc[t] = "iter_suspended"
    /\ Goto(t, "iter_loop")
    /\ Quiet /\ UNCHANGED <<op, frame, stk, val, out, cmdlog, loc, nOps, nEnv, settings, props>>

\* a returned spec: the receiver itself, or a new object
PyWindows(same) == [k |-> "Windows", v |-> IF same THEN 0 ELSE 1]

\* an idle thread calls the refining method `name` of spec self with arguments
\* a; o is what the method does.  The returned spec is kept in frame.
Refine(t, name, self, a, o) ==
    /\ pc[t] = "idle"
    /\ nOps[t] > 0
    /\ nOps' = [nOps EXCEPT ![t] = @ - 1]
    /\ op' = [op EXCEPT ![t] = [name |-> name, cls |-> "Windows", self |-> o.receiver, id |-> 0,
                                 tmo |-> NoTimeout, arg |-> 0, existed |-> FALSE]]
    /\ loc' = [loc EXCEPT ![t] = [NoLocals EXCEPT !.args = a, !.before = self]]
    /\ frame' = [frame EXCEPT ![t] = [NoFrame EXCEPT !.self = o.result]]
    /\ Finish(t, IF o.raised THEN Raised("ValueError", "not a valid title match mode")
                 ELSE Returned(PyWindows(o.same)))
    /\ Quiet /\ UNCHANGED <<stk, val, cmdlog, nEnv, settings, props>>

Calls_filter(t, specs, args) ==
    \E self \in specs, a \in args : Refine(t, "Windows.filter", self, a, Windows_filter(self, a))
Calls_exclude(t, specs, args) ==
    \E self \in specs, a \in args : Refine(t, "Windows.exclude", self, a, Windows_exclude(self, a))
Calls_include_hidden_windows(t, specs, args) ==
    \E self \in specs, a \in args :
        Refine(t, "Windows.include_hidden_windows", self, a, Windows_include_hidden_windows(self, a))
Calls_exclude_hidden_windows(t, specs, args) ==
    \E self \in specs, a \in args :
        Refine(t, "Windows.exclude_hidden_windows", self, a, Windows_exclude_hidden_windows(self, a))
Calls_include_hidden_text(t, specs, args) ==
    \E self \in specs, a \in args :
        Refine(t, "Windows.include_hidden_text", self, a, Windows_include_hidden_text(self, a))
Calls_exclude_hidden_text(t, specs, args) ==
    \E self \in specs, a \in args :
        Refine(t, "Windows.exclude_hidden_text", self, a, Windows_exclude_hidden_text(self, a))
Calls_match_text_slow(t, specs, args) ==
    \E self \in specs, a \in args :
        Refine(t, "Windows.match_text_slow", self, a, Windows_match_text_slow(self, a))

\* the wrapper of every query and action that takes filter arguments, here
\* around exist: self = self.filter(...); return func(self)
filtering(t, specs, args) ==
    \E self \in specs, a \in args :
        LET o == Windows_filter(self, a) IN
        /\ Begin(t, "Windows.exist", o.receiver, 0, NoTimeout, IF o.raised THEN "done" ELSE "W_call")
        /\ loc' = [loc EXCEPT ![t] = [NoLocals EXCEPT !.args = a, !.before = self]]
        /\ IF o.raised
           THEN /\ out' = [out EXCEPT ![t] = Raised("ValueError", "not a valid title match mode")]
                /\ UNCHANGED <<frame, stk>>
           ELSE /\ Call(t, WindowsFrame(o.result, "WinExist", "", Windows__query(o.result),
                                        NoTimeout, FALSE), "exist_ret")
                /\ UNCHANGED out
        /\ Quiet /\ UNCHANGED <<val, cmdlog, nEnv, settings, props>>

\* wait, wait_active and wait_inactive differ only in the command they hand to _wait
WaitCmd(name) ==
    CASE name = "Windows.wait" -> "WinWait"
      [] name \in {"Windows.wait_active", "Windows.activate"} -> "WinWaitActive"
      [] OTHER -> "WinWaitNotActive"

Windows_wait(t, specs, tmos) ==
    /\ \E self \in specs, tmo \in tmos :
        Begin(t, "Windows.wait", self, 0, tmo, "_wait")
    /\ Quiet /\ UNCHANGED <<frame, stk, val, out, cmdlog, loc, nEnv, settings, props>>

Windows_wait_active(t, specs, tmos) ==
    /\ \E self \in specs, tmo \in tmos :
        Begin(t, "Windows.wait_active", self, 0, tmo, "_wait")
    /\ Quiet /\ UNCHANGED <<frame, stk, val, out, cmdlog, loc, nEnv, settings, props>>

Windows_wait_inactive(t, specs, tmos) ==
    /\ \E self \in specs, tmo \in tmos :
        Begin(t, "Windows.wait_inactive", self, 0, tmo, "_wait")
    /\ Quiet /\ UNCHANGED <<frame, stk, val, out, cmdlog, loc, nEnv, settings, props>>

\* _wait without its own `with global_ahk_lock`: the lock is held only inside
\* each _call
Windows__wait_unlocked(t) ==
    /\ pc[t] = "_wait"
    /\ Call(t, WindowsFrame(op[t].self, WaitCmd(op[t].name), "", Windows__query(op[t].self),
                            TimeoutOrBlank(op[t].tmo), TRUE), "_wait_timed_out")
    /\ Goto(t, "W_call")
    /\ UNCHANGED <<desktop, ahk, lockOwner, lockDepth, op, val, out, cmdlog, loc, nOps, nEnv, settings, props>>

\* _wait: with global_ahk_lock: timed_out = self._call(cmd, ...)
Windows__wait(t) ==
    /\ pc[t] = "_wait"
    /\ LockFree(t)
    /\ Acquire(t)
    /\ Call(t, WindowsFrame(op[t].self, WaitCmd(op[t].name), "", Windows__query(op[t].self),
                            TimeoutOrBlank(op[t].tmo), TRUE), "_wait_timed_out")
    /\ Goto(t, "W_call")
    /\ UNCHANGED <<desktop, ahk, op, val, out, cmdlog, loc, nOps, nEnv, settings, props>>

\* if timed_out is None or timed_out: return Window(0); else return windows.first()
Windows__wait_timed_out(t) ==
    /\ pc[t] = "_wait_timed_out"
    /\ IF val[t].raised
       THEN Goto(t, "_wait_exit") /\ UNCHANGED <<val, frame, stk>>
       ELSE IF val[t].val = PyNone \/ Truthy(val[t].val)
       THEN /\ val' = [val EXCEPT ![t] = Returned(PyWindow(0))]
            /\ Goto(t, "_wait_exit")
            /\ UNCHANGED <<frame, stk>>
       ELSE /\ Call(t, WindowsFrame(DefaultWindows, "WinExist", "", Windows__query(DefaultWindows),
                                    NoTimeout, FALSE), "_wait_first")
            /\ Goto(t, "W_call")
            /\ UNCHANGED val
    /\ Quiet /\ UNCHANGED <<op, out, cmdlog, loc, nOps, nEnv, settings, props>>

Windows__wait_first(t) ==
    /\ pc[t] = "_wait_first"
    /\ val' = [val EXCEPT ![t] = Propagate(t, WindowOr0(val[t].val))]
    /\ Goto(t, "_wait_exit")
    /\ Quiet /\ UNCHANGED <<op, frame, stk, out, cmdlog, loc, nOps, nEnv, settings, props>>

Windows__wait_exit(t) ==
    /\ pc[t] = "_wait_exit"
    /\ Release(t)
    /\ IF op[t].name = "Windows.activate"
       THEN Goto(t, "activate_exit") /\ UNCHANGED out
       ELSE Finish(t, val[t])
    /\ UNCHANGED <<desktop, ahk, op, frame, stk, val, cmdlog, loc, nOps, nEnv, settings, props>>

\* Windows.activate: with global_ahk_lock: self._call("WinActivate", ...)
Windows_activate(t, specs, tmos) ==
    /\ \E self \in specs, tmo \in tmos :
        Begin(t, "Windows.activate", self, 0, tmo, "activate_lock")
    /\ Quiet /\ UNCHANGED <<frame, stk, val, out, cmdlog, loc, nEnv, settings, props>>

Windows_activate_lock(t) ==
    /\ pc[t] = "activate_lock"
    /\ LockFree(t)
    /\ Acquire(t)
    /\ Call(t, WindowsFrame(op[t].self, "WinActivate", "", Windows__query(op[t].self), NoTimeout, TRUE),
            "activate_wait")
    /\ Goto(t, "W_call")
    /\ UNCHANGED <<desktop, ahk, op, val, out, cmdlog, loc, nOps, nEnv, settings, props>>

\* if timeout is not None: return self.wait_active(timeout=timeout)
Windows_activate_wait(t) ==
    /\ pc[t] = "activate_wait"
    /\ IF val[t].raised THEN Goto(t, "activate_exit") /\ UNCHANGED val
       ELSE IF op[t].tmo = NoTimeout
       THEN /\ val' = [val EXCEPT ![t] = Returned(PyNone)]
            /\ Goto(t, "activate_exit")
       ELSE Goto(t, "_wait") /\ UNCHANGED val
    /\ Quiet /\ UNCHANGED <<op, frame, stk, out, cmdlog, loc, nOps, nEnv, settings, props>>

\* leaving the with block of activate
Windows_activate_exit(t) ==
    /\ pc[t] = "activate_exit"
    /\ Release(t)
    /\ Finish(t, val[t])
    /\ UNCHANGED <<desktop, ahk, op, frame, stk, val, cmdlog, loc, nOps, nEnv, settings, props>>

Windows_wait_close(t, specs, tmos) ==
    /\ \E self \in specs, tmo \in tmos :
        /\ Begin(t, "Windows.wait_close", self, 0, tmo, "W_call")
        /\ Call(t, WindowsFrame(self, "WinWaitClose", "", Windows__query(self),
                                TimeoutOrBlank(tmo), TRUE), "wait_close_ret")
    /\ Quiet /\ UNCHANGED <<val, out, cmdlog, loc, nEnv, settings, props>>

\* return not timed_out
Windows_wait_close_ret(t) ==
    /\ pc[t] = "wait_close_ret"
    /\ Finish(t, Propagate(t, PyBool(~Truthy(val[t].val))))
    /\ Quiet /\ UNCHANGED <<op, frame, stk, val, cmdlog, loc, nOps, nEnv, settings, props>>

Windows_close(t, specs, tmos) ==
    /\ \E self \in specs, tmo \in tmos :
        /\ Begin(t, "Windows.close", self, 0, tmo, "W_call")
        /\ Call(t, WindowsFrame(self, "WinClose", "", Windows__query(self), tmo, TRUE), "action_ret")
    /\ Quiet /\ UNCHANGED <<val, out, cmdlog, loc, nEnv, settings, props>>

Windows_hide(t, specs) ==
    /\ \E self \in specs :
        /\ Begin(t, "Windows.hide", self, 0, NoTimeout, "W_call")
        /\ Call(t, WindowsFrame(self, "WinHide", "", Windows__query(self), NoTimeout, TRUE), "action_ret")
    /\ Quiet /\ UNCHANGED <<val, out, cmdlog, loc, nEnv, settings, props>>

\* the single actions discard what _call returned
Windows_action_ret(t) ==
    /\ pc[t] = "action_ret"
    /\ Finish(t, Propagate(t, PyNone))
    /\ Quiet /\ UNCHANGED <<op, frame, stk, val, cmdlog, loc, nOps, nEnv, settings, props>>

\* ------------------------------------------------------------ group actions
\* hash() of a frozen dataclass is the hash of the tuple of its fields, so it
\* depends on the field values alone.  The model folds codes of the field
\* values into a signed HashBits-bit number.
HashBits == 6
FieldCode(v) ==
    IF v = UNSET THEN 5 ELSE IF v = None THEN 11 ELSE 17
StrCode(v) == IF v \in {UNSET, None} THEN 0 ELSE Len(v.v)
IntCode(v) == IF v \in {UNSET, None} THEN 0 ELSE v.v
ModeCode(m) ==
    CASE m = "startswith" -> 1 [] m = "contains" -> 2 [] m = "exact" -> 3 [] m = "regex" -> 4
      [] m = "fast" -> 5 [] m = "slow" -> 6 [] OTHER -> 7
ValueHash(self) ==
    3 * (FieldCode(self.title) + StrCode(self.title))
    + 5 * (FieldCode(self.class_name) + StrCode(self.class_name))
    + 7 * (FieldCode(self.id) + IntCode(self.id))
    + 11 * (FieldCode(self.pid) + IntCode(self.pid))
    + 13 * (FieldCode(self.exe) + StrCode(self.exe))
    + 17 * (FieldCode(self.text) + StrCode(self.text))
    + 19 * (FieldCode(self.exclude_title) + StrCode(self.exclude_title))
    + 23 * (FieldCode(self.exclude_text) + StrCode(self.exclude_text))
    + 29 * (IF self.hidden_windows THEN 1 ELSE 0)
    + 31 * (IF self.hidden_text THEN 1 ELSE 0)
    + 37 * ModeCode(self.title_mode) + 41 * ModeCode(self.text_mode)
Signed(n) == (n % (2 ^ HashBits)) - 2 ^ (HashBits - 1)

\* a hash that tells two objects with the same fields apart, as the hash of
\* a class without value equality does
Windows_hash_of_object(self, obj) == Signed(ValueHash(self) + 9 * obj)

\* hash(self)
Windows_hash(self, obj) == Signed(ValueHash(self))

\* str() of an integer
PyIntStr(n) == IF n < 0 THEN <<"-">> \o IntStr(0 - n) ELSE IntStr(n)
\* str.replace of one character by another
Replace(str, old, new) == [i \in 1..Len(str) |-> IF str[i] = old THEN new ELSE str[i]]

\* a group name with the sign of the hash left in
GroupName_unreplaced(self, obj) == PyIntStr(Windows_hash(self, obj))

\* str(query_hash).replace("-", "m")
GroupName(self, obj) == Replace(PyIntStr(Windows_hash(self, obj)), "-", "m")

GroupCmd(name) ==
    CASE name = "Windows.close_all" -> "WinClose"
      [] name = "Windows.hide_all" -> "WinHide"
      [] name = "Windows.minimize_all" -> "WinMinimize"
      [] OTHER -> ""
GroupActions == {"Windows.close_all", "Windows.hide_all", "Windows.minimize_all"}

\* close_all(timeout), hide_all(), minimize_all() on the spec object obj with
\* the fields self
Windows_group(t, specs, objs, tmos) ==
    /\ pc[t] = "idle"
    /\ nOps[t] > 0
    /\ nOps' = [nOps EXCEPT ![t] = @ - 1]
    /\ \E self \in specs, obj \in objs, name \in GroupActions, tmo \in tmos :
        /\ name # "Windows.close_all" => tmo = NoTimeout
        /\ op' = [op EXCEPT ![t] = [name |-> name, cls |-> "Windows", self |-> self, id |-> 0,
                                     tmo |-> tmo, arg |-> obj, existed |-> FALSE]]
    /\ pc' = [pc EXCEPT ![t] = "_group_action"]
    /\ Quiet /\ UNCHANGED <<frame, stk, val, out, cmdlog, loc, nEnv, settings, props>>

\* an action that sends the command against the group without GroupAdd
Windows_group_action_no_add(t) ==
    /\ pc[t] = "_group_action"
    /\ Call(t, WindowsFrame(op[t].self, GroupCmd(op[t].name), "",
                            GroupQuery(GroupName(op[t].self, op[t].arg)), op[t].tmo, TRUE), "group_acted")
    /\ Goto(t, "W_call")
    /\ Quiet /\ UNCHANGED <<op, val, out, cmdlog, loc, nOps, nEnv, settings, props>>

\* Windows._group_action: WinMinimizeAll for the default spec, else GroupAdd
Windows_group_action(t) ==
    /\ pc[t] = "_group_action"
    /\ IF op[t].self = DefaultWindows /\ GroupCmd(op[t].name) = "WinMinimize"
       THEN Call(t, WindowsFrame(op[t].self, "WinMinimizeAll", "", Windows__query(DefaultWindows),
                                 NoTimeout, TRUE), "group_minimized")
       ELSE Call(t, [WindowsFrame(op[t].self, "GroupAdd", "", Windows__query(op[t].self), NoTimeout, FALSE)
                        EXCEPT !.group = GroupName(op[t].self, op[t].arg), !.arg = op[t].arg],
                 "group_added")
    /\ Goto(t, "W_call")
    /\ Quiet /\ UNCHANGED <<op, val, out, cmdlog, loc, nOps, nEnv, settings, props>>

Windows_group_action_minimized(t) ==
    /\ pc[t] = "group_minimized"
    /\ Finish(t, Propagate(t, PyNone))
    /\ Quiet /\ UNCHANGED <<op, frame, stk, val, cmdlog, loc, nOps, nEnv, settings, props>>

\* self._call(cmd, f"ahk_group {query_hash_str}", "", timeout, set_delay=True)
Windows_group_action_cmd(t) ==
    /\ pc[t] = "group_added"
    /\ IF val[t].raised
       THEN Finish(t, val[t]) /\ UNCHANGED <<frame, stk>>
       ELSE /\ Call(t, WindowsFrame(op[t].self, GroupCmd(op[t].name), "",
                                    GroupQuery(GroupName(op[t].self, op[t].arg)), op[t].tmo, TRUE),
                    "group_acted")
            /\ Goto(t, "W_call")
            /\ UNCHANGED out
    /\ Quiet /\ UNCHANGED <<op, val, cmdlog, loc, nOps, nEnv, settings, props>>

\* if timeout is not None: return not self.exist()
Windows_group_action_timeout(t) ==
    /\ pc[t] = "group_acted"
    /\ IF val[t].raised
       THEN Finish(t, val[t]) /\ UNCHANGED <<frame, stk>>
       ELSE IF op[t].tmo = NoTimeout
       THEN Finish(t, Returned(PyNone)) /\ UNCHANGED <<frame, stk>>
       ELSE /\ Call(t, WindowsFrame(op[t].self, "WinExist", "", Windows__query(op[t].self),
                                    NoTimeout, FALSE), "group_exist")
            /\ Goto(t, "W_call")
            /\ UNCHANGED out
    /\ Quiet /\ UNCHANGED <<op, val, cmdlog, loc, nOps, nEnv, settings, props>>

Windows_group_action_exist(t) ==
    /\ pc[t] = "group_exist"
    /\ Finish(t, Propagate(t, PyBool(~Truthy(val[t].val))))
    /\ Quiet /\ UNCHANGED <<op, frame, stk, val, cmdlog, loc, nOps, nEnv, settings, props>>

\* hotkeys._set_key_delay(): SetKeyDelay from the calling thread's settings
set_key_delay(t) ==
    /\ Issue(t, "SetKeyDelay", "")
    /\ ahk' = [ahk EXCEPT !.KeyDelay = optional_ms(get_settings(t).key_delay)]

Windows_send(t, specs) ==
    /\ \E self \in specs :
        Begin(t, "Windows.send", self, 0, NoTimeout, "send_lock")
    /\ Quiet /\ UNCHANGED <<frame, stk, val, out, cmdlog, loc, nEnv, settings, props>>

Windows_send_lock(t) ==
    /\ pc[t] = "send_lock"
    /\ LockFree(t)
    /\ Acquire(t)
    /\ Goto(t, "send_key_delay")
    /\ UNCHANGED <<desktop, ahk, op, frame, stk, val, out, cmdlog, loc, nOps, nEnv, settings, props>>

Windows_send_key_delay(t) ==
    /\ pc[t] = "send_key_delay"
    /\ set_key_delay(t)
    /\ Call(t, WindowsFrame(op[t].self, "ControlSend", "", Windows__query(op[t].self), NoTimeout, FALSE),
            "send_exit")
    /\ Goto(t, "W_call")
    /\ UNCHANGED <<desktop, lockOwner, lockDepth, op, val, out, loc, nOps, nEnv, settings, props>>

Windows_send_exit(t) ==
    /\ pc[t] = "send_exit"
    /\ Release(t)
    /\ Finish(t, Propagate(t, PyNone))
    /\ UNCHANGED <<desktop, ahk, op, frame, stk, val, cmdlog, loc, nOps, nEnv, settings, props>>

\* ------------------------------------------------------------ the caller
\* the operation has returned or raised; the thread goes on with its own code
OpReturn(t) ==
    /\ pc[t] = "done"
    /\ pc' = [pc EXCEPT ![t] = "idle"]
    /\ op' = [op EXCEPT ![t] = NoOp]
    /\ frame' = [frame EXCEPT ![t] = NoFrame]
    /\ val' = [val EXCEPT ![t] = NoOutcome]
    /\ out' = [out EXCEPT ![t] = NoOutcome]
    /\ cmdlog' = [cmdlog EXCEPT ![t] = <<>>]
    /\ loc' = [loc EXCEPT ![t] = NoLocals]
    /\ UNCHANGED <<desktop, ahk, lockOwner, lockDepth, stk, nOps, nEnv, settings, props>>

\* ------------------------------------------------------------ the desktop
\* The program sees the desktop only through commands, so a change of the
\* desktop is taken right before a command is carried out or answered.
Observed == \E t \in Threads : pc[t] \in {"W_cmd", "W_block", "H_cmd", "H_block"}

WindowAppears(w) ==
    /\ nEnv > 0
    /\ Observed
    /\ w \notin desktop.exists
    /\ desktop' = [desktop EXCEPT !.exists = @ \cup {w}]
    /\ nEnv' = nEnv - 1
    /\ UNCHANGED <<ahk, lockOwner, lockDepth, pc, op, frame, stk, val, out, cmdlog, loc, nOps, settings, props>>

WindowVanishes(w) ==
    /\ nEnv > 0
    /\ Observed
    /\ w \in desktop.exists
    /\ desktop' = CloseWin(desktop, w)
    /\ nEnv' = nEnv - 1
    /\ UNCHANGED <<ahk, lockOwner, lockDepth, pc, op, frame, stk, val, out, cmdlog, loc, nOps, settings, props>>

FocusChanges(w) ==
    /\ nEnv > 0
    /\ Observed
    /\ w \in desktop.exists \cup {0}
    /\ w # desktop.active
    /\ desktop' = [desktop EXCEPT !.active = w]
    /\ nEnv' = nEnv - 1
    /\ UNCHANGED <<ahk, lockOwner, lockDepth, pc, op, frame, stk, val, out, cmdlog, loc, nOps, settings, props>>

\* ------------------------------------------------------ WindowHandle._call
HandleFrame(cls, id, cmd, sub, q, tmo, delay, hidden_windows, title_mode) ==
    [cls |-> cls, self |-> DefaultWindows, id |-> id, cmd |-> cmd, sub |-> sub, arg |-> 0, q |-> q,
     tmo |-> tmo, set_delay |-> delay, hidden_windows |-> hidden_windows,
     title_mode |-> title_mode, group |-> <<>>, params |-> <<>>]

\* Control overrides _call, Window inherits WindowHandle._call
CallPc(cls) == IF cls = "Control" THEN "C_call" ELSE "H_call"

\* self._call(cmd, ..., *self._include()) with the defaults of the keyword arguments
SelfCall(t, cmd, sub, tmo, delay, ret) ==
    /\ Call(t, HandleFrame(op[t].cls, op[t].id, cmd, sub, HandleQuery(op[t].id), tmo, delay, TRUE, ""), ret)
    /\ Goto(t, CallPc(op[t].cls))

\* a method call: run from `entry`, come back to `ret`
Invoke(t, entry, ret) ==
    /\ stk' = [stk EXCEPT ![t] = <<ret>> \o @]
    /\ Goto(t, entry)

WindowHandle_call(t) ==
    /\ pc[t] = "H_call"
    /\ IF frame[t].id = 0
       THEN Return(t, Returned(PyNone))
       ELSE Goto(t, "H_lock") /\ UNCHANGED <<val, stk>>
    /\ UNCHANGED <<desktop, ahk, lockOwner, lockDepth, op, frame, out, cmdlog, loc, nOps, nEnv, settings, props>>

WindowHandle_call_lock(t) ==
    /\ pc[t] = "H_lock"
    /\ LockFree(t)
    /\ Acquire(t)
    /\ Goto(t, "H_hidden_windows")
    /\ UNCHANGED <<desktop, ahk, op, frame, stk, val, out, cmdlog, loc, nOps, nEnv, settings, props>>

AfterTitleMode(fr) == IF fr.set_delay THEN "H_delay" ELSE "H_cmd"

WindowHandle_call_hidden_windows(t) ==
    /\ pc[t] = "H_hidden_windows"
    /\ Issue(t, "DetectHiddenWindows", OnOff(frame[t].hidden_windows))
    /\ ahk' = [ahk EXCEPT !.DetectHiddenWindows = OnOff(frame[t].hidden_windows)]
    /\ Goto(t, IF frame[t].title_mode # "" THEN "H_title_mode" ELSE AfterTitleMode(frame[t]))
    /\ UNCHANGED <<desktop, lockOwner, lockDepth, op, frame, stk, val, out, loc, nOps, nEnv, settings, props>>

WindowHandle_call_title_mode(t) ==
    /\ pc[t] = "H_title_mode"
    /\ LET m == TitleModeArg(frame[t].title_mode) IN
        IF m # ""
        THEN /\ Issue(t, "SetTitleMatchMode", m)
             /\ ahk' = [ahk EXCEPT !.TitleMatchMode = m]
             /\ Goto(t, AfterTitleMode(frame[t]))
             /\ UNCHANGED val
        ELSE /\ val' = [val EXCEPT ![t] = Raised("ValueError", "not a valid title match mode")]
             /\ Goto(t, "H_unlock")
             /\ UNCHANGED <<ahk, cmdlog>>
    /\ UNCHANGED <<desktop, lockOwner, lockDepth, op, frame, stk, out, loc, nOps, nEnv, settings, props>>

\* Window._set_delay and Control._set_delay
WindowHandle_call_delay(t) ==
    /\ pc[t] = "H_delay"
    /\ IF frame[t].cls = "Control"
       THEN /\ Issue(t, "SetControlDelay", "")
            /\ ahk' = [ahk EXCEPT !.ControlDelay = optional_ms(get_settings(t).control_delay)]
       ELSE /\ Issue(t, "SetWinDelay", "")
            /\ ahk' = [ahk EXCEPT !.WinDelay = optional_ms(get_settings(t).win_delay)]
    /\ Goto(t, "H_cmd")
    /\ UNCHANGED <<desktop, lockOwner, lockDepth, op, frame, stk, val, out, loc, nOps, nEnv, settings, props>>

WindowHandle_call_cmd(t) ==
    /\ pc[t] = "H_cmd"
    /\ Issue(t, frame[t].cmd, frame[t].sub)
    /\ IF Blocking(frame[t])
       THEN Goto(t, "H_block") /\ UNCHANGED <<ahk, desktop, val, loc, props>>
       ELSE \E r \in AhkCommand(frame[t], ahk, desktop, props) :
                /\ ahk' = r[1].a
                /\ desktop' = r[1].d
                /\ props' = r[2]
                /\ val' = [val EXCEPT ![t] = r[1].res]
                /\ loc' = [loc EXCEPT ![t] = Noted(@, r[1])]
                /\ Goto(t, "H_unlock")
    /\ UNCHANGED <<lockOwner, lockDepth, op, frame, stk, out, nOps, nEnv, settings>>

WindowHandle_call_wake(t) ==
    /\ pc[t] = "H_block"
    /\ \E r \in AhkReply(frame[t], ahk, desktop, props) :
        /\ ahk' = r.a
        /\ desktop' = r.d
        /\ val' = [val EXCEPT ![t] = r.res]
        /\ loc' = [loc EXCEPT ![t] = Noted(@, r)]
        /\ Goto(t, "H_unlock")
    /\ UNCHANGED <<lockOwner, lockDepth, op, frame, stk, out, cmdlog, nOps, nEnv, settings, props>>

\* a _call that gives the lock back only when the command returned
WindowHandle_call_unlock_on_return(t) ==
    /\ pc[t] = "H_unlock"
    /\ IF val[t].raised THEN UNCHANGED <<lockOwner, lockDepth>> ELSE Release(t)
    /\ pc' = [pc EXCEPT ![t] = Head(stk[t])]
    /\ stk' = [stk EXCEPT ![t] = Tail(@)]
    /\ UNCHANGED <<desktop, ahk, op, frame, val, out, cmdlog, loc, nOps, nEnv, settings, props>>

WindowHandle_call_unlock(t) ==
    /\ pc[t] = "H_unlock"
    /\ Release(t)
    /\ pc' = [pc EXCEPT ![t] = Head(stk[t])]
    /\ stk' = [stk EXCEPT ![t] = Tail(@)]
    /\ UNCHANGED <<desktop, ahk, op, frame, val, out, cmdlog, loc, nOps, nEnv, settings, props>>

\* ----------------------------------------------------------- Control._call
IsError(o, code) == o.raised /\ o.exc = "Error" /\ o.message = code

Control_call(t) ==
    /\ pc[t] = "C_call"
    /\ Invoke(t, "H_call", "C_except")
    /\ Quiet /\ UNCHANGED <<op, frame, val, out, cmdlog, loc, nOps, nEnv, settings, props>>

\* except Error as err: if err.message == 1: if not super().exists: return None
Control_call_except(t) ==
    /\ pc[t] = "C_except"
    /\ IF IsError(val[t], "1")
       THEN /\ loc' = [loc EXCEPT ![t].cerr = val[t]]
            /\ Call(t, HandleFrame("Control", op[t].id, "WinExist", "", HandleQuery(op[t].id),
                                   NoTimeout, FALSE, TRUE, ""), "C_exists")
            /\ Goto(t, "H_call")
            /\ UNCHANGED val
       ELSE Return(t, val[t]) /\ UNCHANGED <<loc, frame>>
    /\ Quiet /\ UNCHANGED <<op, out, cmdlog, nOps, nEnv, settings, props>>

Control_call_exists(t) ==
    /\ pc[t] = "C_exists"
    /\ Return(t, IF val[t].raised THEN val[t]
                 ELSE IF ~Truthy(val[t].val) THEN Returned(PyNone)
                 ELSE loc[t].cerr)
    /\ Quiet /\ UNCHANGED <<op, frame, out, cmdlog, loc, nOps, nEnv, settings, props>>

\* ------------------------------------------------- Window and Control methods
\* an idle thread calls `entry` on the handle cls(id)
HandleBegin(t, name, cls, id, tmo, arg, entry) ==
    /\ pc[t] = "idle"
    /\ nOps[t] > 0
    /\ nOps' = [nOps EXCEPT ![t] = @ - 1]
    /\ op' = [op EXCEPT ![t] = [name |-> name, cls |-> cls, self |-> DefaultWindows, id |-> id,
                                 tmo |-> tmo, arg |-> arg, existed |-> id \in desktop.exists]]
    /\ stk' = [stk EXCEPT ![t] = <<"op_ret">>]
    /\ pc' = [pc EXCEPT ![t] = entry]
    /\ loc' = [loc EXCEPT ![t] = [NoLocals EXCEPT !.tmo = tmo, !.index = arg, !.props = props]]
    /\ Quiet /\ UNCHANGED <<frame, val, out, cmdlog, nEnv, settings, props>>

\* the method has returned or raised
OpFinish(t) ==
    /\ pc[t] = "op_ret"
    /\ Finish(t, val[t])
    /\ Quiet /\ UNCHANGED <<op, frame, stk, val, cmdlog, loc, nOps, nEnv, settings, props>>

Local == Quiet /\ UNCHANGED <<op, out, cmdlog, nOps, nEnv, settings, props>>

\* BaseWindow.exists
BaseWindow_exists(t) ==
    /\ pc[t] = "exists"
    /\ SelfCall(t, "WinExist", "", NoTimeout, FALSE, "exists_ret")
    /\ Local /\ UNCHANGED <<val, loc>>

BaseWindow_exists_ret(t) ==
    /\ pc[t] = "exists_ret"
    /\ Return(t, Propagate(t, PyBool(Truthy(val[t].val))))
    /\ Local /\ UNCHANGED <<frame, loc>>

\* BaseWindow.ex_style over Window._get: "" becomes None
BaseWindow_ex_style(t) ==
    /\ pc[t] = "ex_style"
    /\ SelfCall(t, "WinGet", "ExStyle", NoTimeout, FALSE, "ex_style_ret")
    /\ Local /\ UNCHANGED <<val, loc>>

BaseWindow_ex_style_ret(t) ==
    /\ pc[t] = "ex_style_ret"
    /\ Return(t, Propagate(t, IF val[t].val = PyNone \/ val[t].val = PyStr(0) THEN PyNone ELSE val[t].val))
    /\ Local /\ UNCHANGED <<frame, loc>>

\* Window.always_on_top: if self.ex_style is not None: return TOPMOST in self.ex_style
Window_always_on_top(t) ==
    /\ pc[t] = "always_on_top"
    /\ Invoke(t, "ex_style", "always_on_top_test")
    /\ Local /\ UNCHANGED <<frame, val, loc>>

Window_always_on_top_test(t) ==
    /\ pc[t] = "always_on_top_test"
    /\ IF val[t].raised \/ val[t].val = PyNone
       THEN Return(t, val[t])
       ELSE Invoke(t, "ex_style", "always_on_top_in") /\ UNCHANGED val
    /\ Local /\ UNCHANGED <<frame, loc>>

TOPMOST == 8
HasFlag(flag, style) == (style \div flag) % 2 = 1

Window_always_on_top_in(t) ==
    /\ pc[t] = "always_on_top_in"
    /\ Return(t, IF val[t].raised THEN val[t]
                 ELSE IF val[t].val = PyNone
                 THEN Raised("TypeError", "argument of type 'NoneType' is not iterable")
                 ELSE Returned(PyBool(HasFlag(TOPMOST, val[t].val.v))))
    /\ Local /\ UNCHANGED <<frame, loc>>

\* tail call: return self._call(...)
SelfTailCall(t, cmd, sub, tmo, delay) ==
    /\ frame' = [frame EXCEPT ![t] = HandleFrame(op[t].cls, op[t].id, cmd, sub, HandleQuery(op[t].id),
                                                   tmo, delay, TRUE, "")]
    /\ Goto(t, CallPc(op[t].cls))
    /\ UNCHANGED stk

\* Window.close: WinClose, then `not self.exists` when a timeout was given
Window_close(t) ==
    /\ pc[t] = "close"
    /\ SelfCall(t, "WinClose", "", op[t].tmo, TRUE, "close_ret")
    /\ Local /\ UNCHANGED <<val, loc>>

Window_close_ret(t) ==
    /\ pc[t] = "close_ret"
    /\ IF val[t].raised THEN Return(t, val[t])
       ELSE IF op[t].tmo # NoTimeout THEN Invoke(t, "exists", "close_exists") /\ UNCHANGED val
       ELSE Return(t, Returned(PyNone))
    /\ Local /\ UNCHANGED <<frame, loc>>

Window_close_exists(t) ==
    /\ pc[t] = "close_exists"
    /\ Return(t, Propagate(t, PyBool(~Truthy(val[t].val))))
    /\ Local /\ UNCHANGED <<frame, loc>>

\* Window.wait_active, wait_inactive, wait_close
Window_wait_active(t) ==
    /\ pc[t] = "wait_active"
    /\ SelfCall(t, "WinWaitActive", "", op[t].tmo, TRUE, "wait_active_ret")
    /\ Local /\ UNCHANGED <<val, loc>>

Window_wait_active_ret(t) ==
    /\ pc[t] = "wait_active_ret"
    /\ Return(t, Propagate(t, IF val[t].val = PyNone THEN PyBool(FALSE) ELSE PyBool(~Truthy(val[t].val))))
    /\ Local /\ UNCHANGED <<frame, loc>>

Window_wait_inactive(t) ==
    /\ pc[t] = "wait_inactive"
    /\ SelfCall(t, "WinWaitNotActive", "", op[t].tmo, TRUE, "wait_inactive_ret")
    /\ Local /\ UNCHANGED <<val, loc>>

Window_wait_inactive_ret(t) ==
    /\ pc[t] = "wait_inactive_ret"
    /\ Return(t, Propagate(t, IF val[t].val = PyNone THEN PyBool(TRUE) ELSE PyBool(~Truthy(val[t].val))))
    /\ Local /\ UNCHANGED <<frame, loc>>

Window_wait_close(t) ==
    /\ pc[t] = "wait_close"
    /\ SelfCall(t, "WinWaitClose", "", op[t].tmo, TRUE, "wait_inactive_ret")
    /\ Local /\ UNCHANGED <<val, loc>>

\* the values callers pass for `match`; an operation's argument is an index
MatchArgs == <<"startswith", "exact", "fuzzy">>

\* Window.get_control(class_or_text, match): the title match mode goes to _call
Window_get_control(t) ==
    /\ pc[t] = "get_control"
    /\ Call(t, HandleFrame(op[t].cls, op[t].id, "ControlGet", "Hwnd", HandleQuery(op[t].id),
                           NoTimeout, FALSE, TRUE, MatchArgs[op[t].arg]), "get_control_ret")
    /\ Goto(t, CallPc(op[t].cls))
    /\ Local /\ UNCHANGED <<val, loc>>

\* None and error 1 become Control(0)
Window_get_control_ret(t) ==
    /\ pc[t] = "get_control_ret"
    /\ Return(t, IF IsError(val[t], "1") THEN Returned(PyControl(0))
                 ELSE IF val[t].raised THEN val[t]
                 ELSE IF val[t].val = PyNone THEN Returned(PyControl(0))
                 ELSE Returned(PyControl(val[t].val.v)))
    /\ Local /\ UNCHANGED <<frame, loc>>

\* a send that writes the key delay and lets go of the lock before the keys go out
BaseWindow_send_key_delay_released(t) ==
    /\ pc[t] = "send_set_key_delay"
    /\ set_key_delay(t)
    /\ Release(t)
    /\ SelfCall(t, "ControlSend", "", NoTimeout, FALSE, "send_except")
    /\ UNCHANGED <<desktop, op, val, out, loc, nOps, nEnv, settings, props>>

\* BaseWindow.send: with global_ahk_lock: _set_key_delay(); self._call("ControlSend", ...)
BaseWindow_send(t) ==
    /\ pc[t] = "send"
    /\ LockFree(t)
    /\ Acquire(t)
    /\ Goto(t, "send_set_key_delay")
    /\ UNCHANGED <<desktop, ahk, op, frame, stk, val, out, cmdlog, loc, nOps, nEnv, settings, props>>

BaseWindow_send_key_delay(t) ==
    /\ pc[t] = "send_set_key_delay"
    /\ set_key_delay(t)
    /\ SelfCall(t, "ControlSend", "", NoTimeout, FALSE, "send_except")
    /\ UNCHANGED <<desktop, lockOwner, lockDepth, op, val, out, loc, nOps, nEnv, settings, props>>

\* except Error as err: if err.message == 1: return
BaseWindow_send_except(t) ==
    /\ pc[t] = "send_except"
    /\ Release(t)
    /\ Return(t, IF IsError(val[t], "1") THEN Returned(PyNone) ELSE Propagate(t, PyNone))
    /\ UNCHANGED <<desktop, ahk, op, frame, out, cmdlog, loc, nOps, nEnv, settings, props>>

\* BaseWindow.send_message(msg, timeout)
BaseWindow_send_message(t) ==
    /\ pc[t] = "send_message"
    /\ Call(t, [HandleFrame(op[t].cls, op[t].id, "SendMessage", "", HandleQuery(op[t].id),
                            loc[t].tmo, FALSE, TRUE, "") EXCEPT !.arg = loc[t].msg],
            "send_message_except")
    /\ Goto(t, CallPc(op[t].cls))
    /\ loc' = [loc EXCEPT ![t].msgs = Append(@, loc[t].msg)]
    /\ Local /\ UNCHANGED val

BaseWindow_send_message_except(t) ==
    /\ pc[t] = "send_message_except"
    /\ IF IsError(val[t], "FAIL")
       THEN /\ loc' = [loc EXCEPT ![t].err = val[t]]
            /\ Invoke(t, "exists", "send_message_exists")
            /\ UNCHANGED val
       ELSE Return(t, val[t]) /\ UNCHANGED loc
    /\ Local /\ UNCHANGED frame

\* a send_message that answers None whenever the backend reports FAIL
BaseWindow_send_message_exists_quiet(t) ==
    /\ pc[t] = "send_message_exists"
    /\ Return(t, IF val[t].raised THEN val[t] ELSE Returned(PyNone))
    /\ Local /\ UNCHANGED <<frame, loc>>

BaseWindow_send_message_exists(t) ==
    /\ pc[t] = "send_message_exists"
    /\ Return(t, IF val[t].raised THEN val[t]
                 ELSE IF ~Truthy(val[t].val) THEN Returned(PyNone)
                 ELSE Raised("Error", "there was a problem sending message or response timed out"))
    /\ Local /\ UNCHANGED <<frame, loc>>

\* BaseWindow.post_message(msg): True when posted, None when the target is gone
BaseWindow_post_message(t) ==
    /\ pc[t] = "post_message"
    /\ SelfCall(t, "PostMessage", "", NoTimeout, FALSE, "post_message_except")
    /\ Local /\ UNCHANGED <<val, loc>>

\* if err is not None: return not err; except Error as err: if err.message == 1: ...
BaseWindow_post_message_except(t) ==
    /\ pc[t] = "post_message_except"
    /\ IF IsError(val[t], "1")
       THEN /\ loc' = [loc EXCEPT ![t].err = val[t]]
            /\ Invoke(t, "exists", "post_message_exists")
            /\ UNCHANGED val
       ELSE /\ Return(t, IF val[t].raised \/ val[t].val = PyNone THEN val[t]
                         ELSE Returned(PyBool(~Truthy(val[t].val))))
            /\ UNCHANGED loc
    /\ Local /\ UNCHANGED frame

\* a post_message that takes error 1 for a vanished target without looking
BaseWindow_post_message_exists_unchecked(t) ==
    /\ pc[t] = "post_message_exists"
    /\ Return(t, IF val[t].raised THEN val[t] ELSE Returned(PyNone))
    /\ Local /\ UNCHANGED <<frame, loc>>

\* if not self.exists: return None; err.message = "..."; raise
BaseWindow_post_message_exists(t) ==
    /\ pc[t] = "post_message_exists"
    /\ Return(t, IF val[t].raised THEN val[t]
                 ELSE IF ~Truthy(val[t].val) THEN Returned(PyNone)
                 ELSE Raised("Error", "there was a problem posting message"))
    /\ Local /\ UNCHANGED <<frame, loc>>

\* Window.opacity = value (an integer here; None would switch transparency off)
Window_set_opacity(t) ==
    /\ pc[t] = "set_opacity"
    /\ IF ~(0 <= op[t].arg /\ op[t].arg <= 255)
       THEN /\ Return(t, Raised("ValueError", "opacity value must be between 0 and 255"))
            /\ UNCHANGED frame
       ELSE /\ frame' = [frame EXCEPT ![t] =
                    [HandleFrame(op[t].cls, op[t].id, "WinSet", "Transparent", HandleQuery(op[t].id),
                                 NoTimeout, FALSE, TRUE, "") EXCEPT !.arg = op[t].arg]]
            /\ Goto(t, CallPc(op[t].cls))
            /\ UNCHANGED <<stk, val>>
    /\ Local /\ UNCHANGED loc

\* keys.send_level(level)
send_level(t) ==
    /\ pc[t] = "send_level"
    /\ IF ~(0 <= op[t].arg /\ op[t].arg <= 100)
       THEN /\ Return(t, Raised("ValueError", "level must be between 0 and 100"))
            /\ UNCHANGED <<ahk, cmdlog>>
       ELSE /\ Issue(t, "SendLevel", "")
            /\ ahk' = [ahk EXCEPT !.SendLevel = op[t].arg]
            /\ Return(t, Returned(PyNone))
    /\ UNCHANGED <<desktop, lockOwner, lockDepth, op, frame, out, loc, nOps, nEnv, settings, props>>

\* keys.hotkey(key_name, func) with no options
KeyNames == <<"", "F1">>

hotkey(t) ==
    /\ pc[t] = "hotkey"
    /\ IF KeyNames[op[t].arg] = ""
       THEN /\ Return(t, Raised("Error", "invalid key name"))
            /\ UNCHANGED cmdlog
       ELSE /\ Issue(t, "Hotkey", KeyNames[op[t].arg])
            /\ Return(t, Returned([k |-> "Hotkey", v |-> 1]))
    /\ UNCHANGED <<desktop, ahk, lockOwner, lockDepth, op, frame, out, loc, nOps, nEnv, settings, props>>

\* Control.check
Control_check(t) ==
    /\ pc[t] = "check"
    /\ SelfTailCall(t, "Control", "Check", NoTimeout, TRUE)
    /\ Local /\ UNCHANGED <<val, loc>>

\* BaseWindow.class_name: an empty class name becomes None
BaseWindow_class_name(t) ==
    /\ pc[t] = "class_name"
    /\ SelfCall(t, "WinGetClass", "", NoTimeout, FALSE, "class_name_ret")
    /\ Local /\ UNCHANGED <<val, loc>>

BaseWindow_class_name_ret(t) ==
    /\ pc[t] = "class_name_ret"
    /\ Return(t, Propagate(t, IF val[t].val = PyStr(0) THEN PyNone ELSE val[t].val))
    /\ Local /\ UNCHANGED <<frame, loc>>

\* ------------------------------------------------ BaseWindow: the rectangle
\* Window._get_pos and Control._get_pos
GetPosCmd(cls) == IF cls = "Control" THEN "ControlGetPos" ELSE "WinGetPos"
\* Window._move and Control._move
MoveCmd(cls) == IF cls = "Control" THEN "ControlMove" ELSE "WinMove"

\* BaseWindow.rect: result = self._get_pos()
BaseWindow_rect(t) ==
    /\ pc[t] = "rect"
    /\ SelfCall(t, GetPosCmd(op[t].cls), "", NoTimeout, FALSE, "rect_ret")
    /\ Local /\ UNCHANGED <<val, loc>>

\* no result gives four None, and a blank X, Y, Width or Height becomes None
BaseWindow_rect_ret(t) ==
    /\ pc[t] = "rect_ret"
    /\ Return(t, Propagate(t, PyTuple(4)))
    /\ loc' = [loc EXCEPT ![t].rect =
                IF val[t].raised THEN @
                ELSE IF val[t].val = PyNone THEN <<PyNone, PyNone, PyNone, PyNone>>
                ELSE [i \in 1..4 |-> IF @[i] = Blank THEN PyNone ELSE @[i]]]
    /\ Local /\ UNCHANGED frame

\* the getters position, x, y, width and height unpack self.rect
FieldRet == [position |-> "position_ret", x |-> "x_ret", y |-> "y_ret",
             width |-> "width_ret", height |-> "height_ret"]
FieldIndex == [x_ret |-> 1, y_ret |-> 2, width_ret |-> 3, height_ret |-> 4]

BaseWindow_rect_field(t) ==
    /\ pc[t] \in DOMAIN FieldRet
    /\ Invoke(t, "rect", FieldRet[pc[t]])
    /\ Local /\ UNCHANGED <<frame, val, loc>>

BaseWindow_position_ret(t) ==
    /\ pc[t] = "position_ret"
    /\ Return(t, Propagate(t, PyTuple(2)))
    /\ loc' = [loc EXCEPT ![t].rect = IF val[t].raised THEN @ ELSE SubSeq(@, 1, 2)]
    /\ Local /\ UNCHANGED frame

BaseWindow_rect_field_ret(t) ==
    /\ pc[t] \in DOMAIN FieldIndex
    /\ Return(t, IF val[t].raised THEN val[t] ELSE Returned(loc[t].rect[FieldIndex[pc[t]]]))
    /\ Local /\ UNCHANGED <<frame, loc>>

\* what callers hand to move and to the setters for x, y, width and height
MoveArgs ==
    << <<PyInt(5), PyInt(7), PyNone, PyNone>>,
       <<PyNone, PyNone, PyInt(4), PyNone>>,
       <<PyInt(0), PyNone, PyNone, PyInt(3)>>,
       <<PyInt(6), PyInt(0), PyInt(1), PyInt(8)>>,
       <<PyNone, PyNone, PyNone, PyNone>> >>

\* the setters: rect takes four values, position two, the others one; each
\* calls move with the other parameters left at their default None
SetterArgs(name, a) ==
    CASE name = "set_rect" -> a
      [] name = "set_position" -> <<a[1], a[2], PyNone, PyNone>>
      [] name = "set_x" -> <<a[1], PyNone, PyNone, PyNone>>
      [] name = "set_y" -> <<PyNone, a[2], PyNone, PyNone>>
      [] name = "set_width" -> <<PyNone, PyNone, a[3], PyNone>>
      [] name = "set_height" -> <<PyNone, PyNone, PyNone, a[4]>>
Setters == {"set_rect", "set_position", "set_x", "set_y", "set_width", "set_height"}

BaseWindow_rect_setter(t) ==
    /\ pc[t] \in Setters
    /\ loc' = [loc EXCEPT ![t].margs = SetterArgs(pc[t], MoveArgs[op[t].arg])]
    /\ Goto(t, "move_body")
    /\ Local /\ UNCHANGED <<frame, stk, val>>

\* a caller's move(x, y, width, height)
BaseWindow_move_args(t) ==
    /\ pc[t] = "move"
    /\ loc' = [loc EXCEPT ![t].margs = MoveArgs[op[t].arg]]
    /\ Goto(t, "move_body")
    /\ Local /\ UNCHANGED <<frame, stk, val>>

\* converters.default(int, value, default_value)
default_int_zero(value, default_value) == IF value # PyNone THEN value ELSE PyInt(0)
default_int(value, default_value) == IF value # PyNone THEN value ELSE default_value

\* BaseWindow.move: self._move(default(int, x, ""), ...)
BaseWindow_move(t) ==
    /\ pc[t] = "move_body"
    /\ Call(t, [HandleFrame(op[t].cls, op[t].id, MoveCmd(op[t].cls), "", HandleQuery(op[t].id),
                            NoTimeout, TRUE, TRUE, "")
                EXCEPT !.params = [i \in 1..4 |-> default_int(loc[t].margs[i], Blank)]],
            "move_ret")
    /\ Goto(t, CallPc(op[t].cls))
    /\ Local /\ UNCHANGED <<val, loc>>

BaseWindow_move_ret(t) ==
    /\ pc[t] = "move_ret"
    /\ Return(t, Propagate(t, PyNone))
    /\ Local /\ UNCHANGED <<frame, loc>>

\* ------------------------------------------- BaseWindow: style, enabled, visible
\* Window._get and Control._get
GetCmd(cls) == IF cls = "Control" THEN "ControlGet" ELSE "WinGet"

\* BaseWindow.style: style = self._get("Style")
BaseWindow_style(t) ==
    /\ pc[t] = "style"
    /\ SelfCall(t, GetCmd(op[t].cls), "Style", NoTimeout, FALSE, "style_ret")
    /\ Local /\ UNCHANGED <<val, loc>>

\* Window._get turns "" into None, Control._get returns what _call gave;
\* WindowStyle(style) of anything but None
BaseWindow_style_ret(t) ==
    /\ pc[t] = "style_ret"
    /\ Return(t, IF val[t].raised THEN val[t]
                 ELSE IF val[t].val = PyNone \/ (op[t].cls = "Window" /\ val[t].val = Blank)
                 THEN Returned(PyNone)
                 ELSE IF val[t].val.k # "int"
                 THEN Raised("ValueError", "not a valid WindowStyle")
                 ELSE val[t])
    /\ Local /\ UNCHANGED <<frame, loc>>

BaseWindow_is_enabled(t) ==
    /\ pc[t] = "is_enabled"
    /\ Invoke(t, "style", "is_enabled_ret")
    /\ Local /\ UNCHANGED <<frame, val, loc>>

\* a mutation: enabled is read off the whole style
BaseWindow_is_enabled_ret_whole_style(t) ==
    /\ pc[t] = "is_enabled_ret"
    /\ Return(t, IF val[t].raised \/ val[t].val = PyNone THEN val[t]
                 ELSE Returned(PyBool(val[t].val.v < DISABLED)))
    /\ Local /\ UNCHANGED <<frame, loc>>

\* if style is not None: return WindowStyle.DISABLED not in style
BaseWindow_is_enabled_ret(t) ==
    /\ pc[t] = "is_enabled_ret"
    /\ Return(t, IF val[t].raised \/ val[t].val = PyNone THEN val[t]
                 ELSE Returned(PyBool(~HasBit(val[t].val.v, DISABLED))))
    /\ Local /\ UNCHANGED <<frame, loc>>

BaseWindow_is_visible(t) ==
    /\ pc[t] = "is_visible"
    /\ Invoke(t, "style", "is_visible_ret")
    /\ Local /\ UNCHANGED <<frame, val, loc>>

\* if style is None: return False; return WindowStyle.VISIBLE in style
BaseWindow_is_visible_ret(t) ==
    /\ pc[t] = "is_visible_ret"
    /\ Return(t, IF val[t].raised THEN val[t]
                 ELSE IF val[t].val = PyNone THEN Returned(PyBool(FALSE))
                 ELSE Returned(PyBool(HasBit(val[t].val.v, VISIBLE))))
    /\ Local /\ UNCHANGED <<frame, loc>>

\* a mutation: the setter writes the bit into the style itself
BaseWindow_is_enabled_setter_style_write(t) ==
    /\ pc[t] = "set_is_enabled"
    /\ frame' = [frame EXCEPT ![t] =
            [HandleFrame(op[t].cls, op[t].id, "WinSet", "Style", HandleQuery(op[t].id),
                         NoTimeout, FALSE, TRUE, "")
             EXCEPT !.arg = WithBit(CAPTION, DISABLED, op[t].arg = 0)]]
    /\ Goto(t, CallPc(op[t].cls))
    /\ Local /\ UNCHANGED <<stk, val, loc>>

\* is_enabled.setter: self.enable() if value else self.disable()
BaseWindow_is_enabled_setter(t) ==
    /\ pc[t] = "set_is_enabled"
    /\ Goto(t, IF op[t].arg # 0 THEN "enable" ELSE "disable")
    /\ Local /\ UNCHANGED <<frame, stk, val, loc>>

\* is_visible.setter: self.show() if value else self.hide()
BaseWindow_is_visible_setter(t) ==
    /\ pc[t] = "set_is_visible"
    /\ Goto(t, IF op[t].arg # 0 THEN "show" ELSE "hide")
    /\ Local /\ UNCHANGED <<frame, stk, val, loc>>

MethodName == [enable |-> "Enable", disable |-> "Disable", show |-> "Show", hide |-> "Hide"]

\* Window.enable and Window.disable: self._set("Enable"), self._set("Disable")
Window_enable_disable(t) ==
    /\ pc[t] \in {"enable", "disable"} /\ op[t].cls = "Window"
    /\ SelfTailCall(t, "WinSet", MethodName[pc[t]], NoTimeout, FALSE)
    /\ Local /\ UNCHANGED <<val, loc>>

\* Window.show and Window.hide
Window_show_hide(t) ==
    /\ pc[t] \in {"show", "hide"} /\ op[t].cls = "Window"
    /\ SelfTailCall(t, IF pc[t] = "show" THEN "WinShow" ELSE "WinHide", "", NoTimeout, TRUE)
    /\ Local /\ UNCHANGED <<val, loc>>

\* Control.enable, disable, show and hide
Control_enable_disable(t) ==
    /\ pc[t] \in {"enable", "disable"} /\ op[t].cls = "Control"
    /\ SelfTailCall(t, "Control", MethodName[pc[t]], NoTimeout, TRUE)
    /\ Local /\ UNCHANGED <<val, loc>>

Control_show_hide(t) ==
    /\ pc[t] \in {"show", "hide"} /\ op[t].cls = "Control"
    /\ SelfTailCall(t, "Control", MethodName[pc[t]], NoTimeout, TRUE)
    /\ Local /\ UNCHANGED <<val, loc>>

\* ------------------------------------------------- title, text, WinGet properties
\* Window.title: title = self._call("WinGetTitle", ...)
Window_title(t) ==
    /\ pc[t] = "title"
    /\ SelfCall(t, "WinGetTitle", "", NoTimeout, FALSE, "title_exists")
    /\ Local /\ UNCHANGED <<val, loc>>

\* if self.exists:
Window_title_exists(t) ==
    /\ pc[t] = "title_exists"
    /\ IF val[t].raised
       THEN Return(t, val[t]) /\ UNCHANGED loc
       ELSE /\ loc' = [loc EXCEPT ![t].res = val[t]]
            /\ Invoke(t, "exists", "title_ret")
            /\ UNCHANGED val
    /\ Local /\ UNCHANGED frame

\* a mutation: an empty title is taken for no title
Window_title_ret_no_empty(t) ==
    /\ pc[t] = "title_ret"
    /\ Return(t, IF val[t].raised THEN val[t]
                 ELSE IF Truthy(val[t].val) /\ Truthy(loc[t].res.val) THEN loc[t].res
                 ELSE Returned(PyNone))
    /\ Local /\ UNCHANGED <<frame, loc>>

\* return str(title), or None when the window does not exist
Window_title_ret(t) ==
    /\ pc[t] = "title_ret"
    /\ Return(t, IF val[t].raised THEN val[t]
                 ELSE IF Truthy(val[t].val) THEN loc[t].res
                 ELSE Returned(PyNone))
    /\ Local /\ UNCHANGED <<frame, loc>>

\* Control.text: text = self._call("ControlGetText", ...)
Control_text(t) ==
    /\ pc[t] = "text"
    /\ SelfCall(t, "ControlGetText", "", NoTimeout, FALSE, "text_ret")
    /\ Local /\ UNCHANGED <<val, loc>>

\* if text is not None: return str(text)
Control_text_ret(t) ==
    /\ pc[t] = "text_ret"
    /\ Return(t, val[t])
    /\ Local /\ UNCHANGED <<frame, loc>>

\* Window.pid, process_name, process_path and opacity: self._get(subcmd)
GetSubcmd == [pid |-> "PID", process_name |-> "ProcessName", process_path |-> "ProcessPath",
              opacity |-> "Transparent"]

Window_get_property(t) ==
    /\ pc[t] \in DOMAIN GetSubcmd
    /\ SelfCall(t, "WinGet", GetSubcmd[pc[t]], NoTimeout, FALSE, "get_ret")
    /\ Local /\ UNCHANGED <<val, loc>>

\* a mutation: the result is handed on as the backend gave it
Window_get_as_is(t) ==
    /\ pc[t] = "get_ret"
    /\ Return(t, val[t])
    /\ Local /\ UNCHANGED <<frame, loc>>

\* Window._get: if result != "": return result
Window_get(t) ==
    /\ pc[t] = "get_ret"
    /\ Return(t, IF ~val[t].raised /\ val[t].val = Blank THEN Returned(PyNone) ELSE val[t])
    /\ Local /\ UNCHANGED <<frame, loc>>

\* str.lower() and the `in` test on strings
UpperCase == <<"A", "B", "C", "D", "E", "F", "G", "H", "I", "J", "K", "L", "M",
               "N", "O", "P", "Q", "R", "S", "T", "U", "V", "W", "X", "Y", "Z">>
LowerCase == <<"a", "b", "c", "d", "e", "f", "g", "h", "i", "j", "k", "l", "m",
               "n", "o", "p", "q", "r", "s", "t", "u", "v", "w", "x", "y", "z">>
LowerChar(c) ==
    IF \E i \in 1..26 : UpperCase[i] = c
    THEN LowerCase[CHOOSE i \in 1..26 : UpperCase[i] = c] ELSE c
Lower(str) == [i \in 1..Len(str) |-> LowerChar(str[i])]
SYSLISTVIEW32 == <<"s", "y", "s", "l", "i", "s", "t", "v", "i", "e", "w", "3", "2">>
COMBO == <<"c", "o", "m", "b", "o">>
LIST == <<"l", "i", "s", "t">>
ClassLower(v) == Lower(StrOf(v.v))

\* Control._count_list_items(option)
Control_count_list_items(t) ==
    /\ pc[t] = "_count_list_items"
    /\ SelfCall(t, "ControlGet", IF loc[t].opt = "" THEN "List Count" ELSE "List Count Col",
                NoTimeout, FALSE, "_count_list_items_except")
    /\ Local /\ UNCHANGED <<val, loc>>

Control_count_list_items_except(t) ==
    /\ pc[t] = "_count_list_items_except"
    /\ IF IsError(val[t], "1")
       THEN /\ loc' = [loc EXCEPT ![t].err = val[t]]
            /\ Invoke(t, "class_name", "_count_list_items_class")
            /\ UNCHANGED val
       ELSE Return(t, val[t]) /\ UNCHANGED loc
    /\ Local /\ UNCHANGED frame

\* if "syslistview32" not in self.class_name.lower(): return None
Control_count_list_items_class(t) ==
    /\ pc[t] = "_count_list_items_class"
    /\ Return(t, IF val[t].raised THEN val[t]
                 ELSE IF val[t].val = PyNone
                 THEN Raised("AttributeError", "'NoneType' object has no attribute 'lower'")
                 ELSE IF ~Contains(SYSLISTVIEW32, ClassLower(val[t].val)) THEN Returned(PyNone)
                 ELSE Raised("Error", "there was a problem getting list items"))
    /\ Local /\ UNCHANGED <<frame, loc>>

Control_list_view_column_count(t) ==
    /\ pc[t] = "list_view_column_count"
    /\ loc' = [loc EXCEPT ![t].opt = "Col"]
    /\ Goto(t, "_count_list_items")
    /\ Local /\ UNCHANGED <<frame, stk, val>>

\* Control.list_item_count
Control_list_item_count(t) ==
    /\ pc[t] = "list_item_count"
    /\ Invoke(t, "class_name", "list_item_count_class")
    /\ Local /\ UNCHANGED <<frame, val, loc>>

Control_list_item_count_class(t) ==
    /\ pc[t] = "list_item_count_class"
    /\ IF val[t].raised \/ val[t].val = PyNone
       THEN Return(t, val[t]) /\ UNCHANGED loc
       ELSE LET lower == ClassLower(val[t].val) IN
            IF Contains(SYSLISTVIEW32, lower)
            THEN /\ loc' = [loc EXCEPT ![t].opt = ""]
                 /\ Goto(t, "_count_list_items")
                 /\ UNCHANGED <<val, stk>>
            ELSE IF Contains(COMBO, lower)
            THEN /\ loc' = [loc EXCEPT ![t].msg = CB_GETCOUNT, ![t].tmo = 5]
                 /\ Goto(t, "send_message")
                 /\ UNCHANGED <<val, stk>>
            ELSE IF Contains(LIST, lower)
            THEN /\ loc' = [loc EXCEPT ![t].msg = LB_GETCOUNT, ![t].tmo = 5]
                 /\ Goto(t, "send_message")
                 /\ UNCHANGED <<val, stk>>
            ELSE Return(t, Returned(PyNone)) /\ UNCHANGED loc
    /\ Local /\ UNCHANGED frame

\* Control.choose_item_index(index)
Control_choose_item_index(t) ==
    /\ pc[t] = "choose_item_index"
    /\ IF loc[t].index < 0
       THEN Invoke(t, "list_item_count", "choose_item_index_add")
       ELSE Goto(t, "choose_item_index_call") /\ UNCHANGED stk
    /\ Local /\ UNCHANGED <<frame, val, loc>>

\* index = self.list_item_count + index
Control_choose_item_index_add(t) ==
    /\ pc[t] = "choose_item_index_add"
    /\ IF val[t].raised
       THEN Return(t, val[t]) /\ UNCHANGED loc
       ELSE IF val[t].val = PyNone
       THEN /\ Return(t, Raised("TypeError", "unsupported operand type(s) for +: 'NoneType' and 'int'"))
            /\ UNCHANGED loc
       ELSE /\ loc' = [loc EXCEPT ![t].index = val[t].val.v + loc[t].index]
            /\ Goto(t, "choose_item_index_call")
            /\ UNCHANGED <<val, stk>>
    /\ Local /\ UNCHANGED frame

\* self._call("Control", "Choose", index + 1, set_delay=True): no window parameters
Control_choose_item_index_call(t) ==
    /\ pc[t] = "choose_item_index_call"
    /\ Call(t, [HandleFrame("Control", op[t].id, "Control", "Choose", Windows__query(DefaultWindows),
                            NoTimeout, TRUE, TRUE, "") EXCEPT !.arg = loc[t].index + 1],
            "choose_item_index_except")
    /\ Goto(t, "C_call")
    /\ Local /\ UNCHANGED <<val, loc>>

Control_choose_item_index_except(t) ==
    /\ pc[t] = "choose_item_index_except"
    /\ IF IsError(val[t], "1")
       THEN /\ loc' = [loc EXCEPT ![t].err = val[t]]
            /\ Invoke(t, "list_item_count", "choose_item_index_raise")
            /\ UNCHANGED val
       ELSE Return(t, Propagate(t, PyNone)) /\ UNCHANGED loc
    /\ Local /\ UNCHANGED frame

\* if self.list_item_count < index + 1: raise; raise
Control_choose_item_index_raise(t) ==
    /\ pc[t] = "choose_item_index_raise"
    /\ Return(t, IF val[t].raised THEN val[t]
                 ELSE IF val[t].val = PyNone
                 THEN Raised("TypeError", "'<' not supported between instances of 'NoneType' and 'int'")
                 ELSE loc[t].err)
    /\ Local /\ UNCHANGED <<frame, loc>>

\* Control.line_count
Control_line_count(t) ==
    /\ pc[t] = "line_count"
    /\ SelfTailCall(t, "ControlGet", "LineCount", NoTimeout, FALSE)
    /\ Local /\ UNCHANGED <<val, loc>>

\* Control.get_line(lineno)
Control_get_line(t) ==
    /\ pc[t] = "get_line"
    /\ Call(t, [HandleFrame("Control", op[t].id, "ControlGet", "Line", HandleQuery(op[t].id),
                            NoTimeout, FALSE, TRUE, "") EXCEPT !.arg = loc[t].index + 1],
            "get_line_except")
    /\ Goto(t, "C_call")
    /\ Local /\ UNCHANGED <<val, loc>>

Control_get_line_except(t) ==
    /\ pc[t] = "get_line_except"
    /\ IF IsError(val[t], "1")
       THEN Invoke(t, "line_count", "get_line_last") /\ UNCHANGED val
       ELSE Return(t, val[t])
    /\ Local /\ UNCHANGED <<frame, loc>>

\* if int(lineno) + 1 == self.line_count: return ""; return None
Control_get_line_last(t) ==
    /\ pc[t] = "get_line_last"
    /\ Return(t, IF val[t].raised THEN val[t]
                 ELSE IF val[t].val = PyInt(loc[t].index + 1) THEN Returned(PyStr(0))
                 ELSE Returned(PyNone))
    /\ Local /\ UNCHANGED <<frame, loc>>

\* ------------------------------------------------------ Control: list queries
\* the branch a method takes on the lower-cased class name: list_choice_index
\* and list_item_index test "combo", then "list"
ComboOrList(lower, combo, list) ==
    IF Contains(COMBO, lower) THEN combo ELSE IF Contains(LIST, lower) THEN list ELSE 0

\* Control.list_choice_index and Control.list_item_index(value): class_name = self.class_name
Control_list_index(t) ==
    /\ pc[t] \in {"list_choice_index", "list_item_index"}
    /\ Invoke(t, "class_name", IF pc[t] = "list_choice_index" THEN "list_choice_index_class"
                               ELSE "list_item_index_class")
    /\ Local /\ UNCHANGED <<frame, val, loc>>

Control_list_choice_index_class(t) ==
    /\ pc[t] = "list_choice_index_class"
    /\ IF val[t].raised \/ val[t].val = PyNone
       THEN Return(t, val[t]) /\ UNCHANGED loc
       ELSE LET getcursel == ComboOrList(ClassLower(val[t].val), CB_GETCURSEL, LB_GETCURSEL) IN
            IF getcursel = 0
            THEN Return(t, Returned(PyNone)) /\ UNCHANGED loc
            ELSE /\ loc' = [loc EXCEPT ![t].msg = getcursel, ![t].tmo = 5]
                 /\ Goto(t, "send_message")
                 /\ UNCHANGED <<val, stk>>
    /\ Local /\ UNCHANGED frame

Control_list_item_index_class(t) ==
    /\ pc[t] = "list_item_index_class"
    /\ IF val[t].raised \/ val[t].val = PyNone
       THEN Return(t, val[t]) /\ UNCHANGED loc
       ELSE LET find_string_exact ==
                    ComboOrList(ClassLower(val[t].val), CB_FINDSTRINGEXACT, LB_FINDSTRINGEXACT) IN
            IF find_string_exact = 0
            THEN Return(t, Returned(PyNone)) /\ UNCHANGED loc
            ELSE /\ loc' = [loc EXCEPT ![t].msg = find_string_exact, ![t].tmo = 5]
                 /\ Goto(t, "send_message")
                 /\ UNCHANGED <<val, stk>>
    /\ Local /\ UNCHANGED frame

\* Control.list_choice: choice = self._get("Choice")
Control_list_choice(t) ==
    /\ pc[t] = "list_choice"
    /\ SelfCall(t, "ControlGet", "Choice", NoTimeout, FALSE, "list_choice_except")
    /\ Local /\ UNCHANGED <<val, loc>>

\* except Error as err: if err.message == 1 and self.list_choice_index == -1
Control_list_choice_except(t) ==
    /\ pc[t] = "list_choice_except"
    /\ IF IsError(val[t], "1")
       THEN /\ loc' = [loc EXCEPT ![t].err = val[t]]
            /\ Invoke(t, "list_choice_index", "list_choice_check")
            /\ UNCHANGED val
       ELSE Return(t, val[t]) /\ UNCHANGED loc
    /\ Local /\ UNCHANGED frame

\* return None, or raise
Control_list_choice_check(t) ==
    /\ pc[t] = "list_choice_check"
    /\ Return(t, IF val[t].raised THEN val[t]
                 ELSE IF val[t].val = PyInt(-1) THEN Returned(PyNone)
                 ELSE loc[t].err)
    /\ Local /\ UNCHANGED <<frame, loc>>

\* Control.list_items: items = self._get("List")
Control_list_items(t) ==
    /\ pc[t] = "list_items"
    /\ SelfCall(t, "ControlGet", "List", NoTimeout, FALSE, "list_items_except")
    /\ Local /\ UNCHANGED <<val, loc>>

\* an Error 1 is raised with a message of its own; if items is not None:
Control_list_items_except(t) ==
    /\ pc[t] = "list_items_except"
    /\ IF IsError(val[t], "1")
       THEN Return(t, Raised("Error", "there was a problem getting list items")) /\ UNCHANGED loc
       ELSE IF val[t].raised \/ val[t].val = PyNone
       THEN Return(t, val[t]) /\ UNCHANGED loc
       ELSE /\ loc' = [loc EXCEPT ![t].res = val[t]]
            /\ Invoke(t, "class_name", "list_items_split")
            /\ UNCHANGED val
    /\ Local /\ UNCHANGED frame

\* if "syslistview32" in self.class_name.lower(): rows of columns, else lines
Control_list_items_split(t) ==
    /\ pc[t] = "list_items_split"
    /\ Return(t, IF val[t].raised THEN val[t]
                 ELSE IF val[t].val = PyNone
                 THEN Raised("AttributeError", "'NoneType' object has no attribute 'lower'")
                 ELSE loc[t].res)
    /\ Local /\ UNCHANGED <<frame, loc>>

\* the column arguments of get_list_items: None, the first column, a column
\* no list view has, the last column
Columns == <<PyNone, PyInt(0), PyInt(3), PyInt(-1)>>

\* Control.get_list_items(column=...): a negative column counts from the last
Control_get_list_items(t) ==
    /\ pc[t] = "get_list_items"
    /\ loc' = [loc EXCEPT ![t].index = Columns[op[t].arg].v]
    /\ IF Columns[op[t].arg] # PyNone /\ Columns[op[t].arg].v < 0
       THEN Invoke(t, "list_view_column_count", "get_list_items_add")
       ELSE Goto(t, "get_list_items_call") /\ UNCHANGED stk
    /\ Local /\ UNCHANGED <<frame, val>>

\* column = self.list_view_column_count + column
Control_get_list_items_add(t) ==
    /\ pc[t] = "get_list_items_add"
    /\ IF val[t].raised
       THEN Return(t, val[t]) /\ UNCHANGED loc
       ELSE IF val[t].val = PyNone
       THEN /\ Return(t, Raised("TypeError", "unsupported operand type(s) for +: 'NoneType' and 'int'"))
            /\ UNCHANGED loc
       ELSE /\ loc' = [loc EXCEPT ![t].index = val[t].val.v + loc[t].index]
            /\ Goto(t, "get_list_items_call")
            /\ UNCHANGED <<val, stk>>
    /\ Local /\ UNCHANGED frame

\* items = self._get("List", str_options)
Control_get_list_items_call(t) ==
    /\ pc[t] = "get_list_items_call"
    /\ Call(t, [HandleFrame("Control", op[t].id, "ControlGet",
                            IF Columns[op[t].arg] = PyNone THEN "List" ELSE "List Col",
                            HandleQuery(op[t].id), NoTimeout, FALSE, TRUE, "")
                EXCEPT !.arg = IF Columns[op[t].arg] = PyNone THEN 0 ELSE loc[t].index + 1],
            "get_list_items_except")
    /\ Goto(t, "C_call")
    /\ Local /\ UNCHANGED <<val, loc>>

Control_get_list_items_except(t) ==
    /\ pc[t] = "get_list_items_except"
    /\ IF IsError(val[t], "1")
       THEN /\ loc' = [loc EXCEPT ![t].err = val[t]]
            /\ Invoke(t, "class_name", "get_list_items_class")
            /\ UNCHANGED val
       ELSE Return(t, val[t]) /\ UNCHANGED loc
    /\ Local /\ UNCHANGED frame

\* if "syslistview32" not in self.class_name.lower(): return None
Control_get_list_items_class(t) ==
    /\ pc[t] = "get_list_items_class"
    /\ IF val[t].raised
       THEN Return(t, val[t])
       ELSE IF val[t].val = PyNone
       THEN Return(t, Raised("AttributeError", "'NoneType' object has no attribute 'lower'"))
       ELSE IF ~Contains(SYSLISTVIEW32, ClassLower(val[t].val))
       THEN Return(t, Returned(PyNone))
       ELSE IF Columns[op[t].arg] # PyNone
       THEN Invoke(t, "list_view_column_count", "get_list_items_range") /\ UNCHANGED val
       ELSE Return(t, Raised("Error", "there was a problem getting list items"))
    /\ Local /\ UNCHANGED <<frame, loc>>

\* if self.list_view_column_count < column + 1: ...; raise err
Control_get_list_items_range(t) ==
    /\ pc[t] = "get_list_items_range"
    /\ Return(t, IF val[t].raised THEN val[t]
                 ELSE IF val[t].val = PyNone
                 THEN Raised("TypeError", "'<' not supported between instances of 'NoneType' and 'int'")
                 ELSE IF val[t].val.v < loc[t].index + 1
                 THEN Raised("Error", "column index out of range")
                 ELSE Raised("Error", "there was a problem getting list items"))
    /\ Local /\ UNCHANGED <<frame, loc>>

\* ------------------------------------------------------------- the callers
\* a caller invokes one of the methods on its menu
Invocation(name, cls, entry, id, tmo, arg) ==
    [name |-> name, cls |-> cls, entry |-> entry, id |-> id, tmo |-> tmo, arg |-> arg]

CallerInvokes(t, menu) ==
    \E m \in menu : HandleBegin(t, m.name, m.cls, m.id, m.tmo, m.arg, m.entry)

HandleTimeouts == {NoTimeout, 1}

WindowMenu(ids) ==
    {Invocation("Window.exists", "Window", "exists", id, NoTimeout, 0) : id \in ids}
    \cup {Invocation("Window.always_on_top", "Window", "always_on_top", id, NoTimeout, 0) : id \in ids}
    \cup {Invocation("Window.close", "Window", "close", id, tmo, 0) : id \in ids, tmo \in HandleTimeouts}
    \cup {Invocation("Window.wait_active", "Window", "wait_active", id, tmo, 0) : id \in ids, tmo \in HandleTimeouts}
    \cup {Invocation("Window.wait_inactive", "Window", "wait_inactive", id, tmo, 0) : id \in ids, tmo \in HandleTimeouts}
    \cup {Invocation("Window.wait_close", "Window", "wait_close", id, tmo, 0) : id \in ids, tmo \in HandleTimeouts}
    \cup {Invocation("Window.send", "Window", "send", id, NoTimeout, 0) : id \in ids}
    \cup {Invocation("Window.send_message", "Window", "send_message", id, 1, 0) : id \in ids}
    \cup {Invocation("Window.post_message", "Window", "post_message", id, NoTimeout, 0) : id \in ids}
    \cup {Invocation("Window.get_control", "Window", "get_control", id, NoTimeout, m) :
            id \in ids, m \in 1..Len(MatchArgs)}
    \cup {Invocation("Window.opacity", "Window", "set_opacity", id, NoTimeout, v) :
            id \in ids, v \in {-1, 255, 256}}

ControlMenu(ids) ==
    {Invocation("Control.send", "Control", "send", id, NoTimeout, 0) : id \in ids}
    \cup {Invocation("Control.send_message", "Control", "send_message", id, 1, 0) : id \in ids}
    \cup {Invocation("Control.post_message", "Control", "post_message", id, NoTimeout, 0) : id \in ids}
    \cup {Invocation("Control.check", "Control", "check", id, NoTimeout, 0) : id \in ids}
    \cup {Invocation("Control.list_view_column_count", "Control", "list_view_column_count", id, NoTimeout, 0) : id \in ids}
    \cup {Invocation("Control.list_item_count", "Control", "list_item_count", id, NoTimeout, 0) : id \in ids}
    \cup {Invocation("Control.choose_item_index", "Control", "choose_item_index", id, NoTimeout, i) :
            id \in ids, i \in {-1, 0}}
    \cup {Invocation("Control.get_line", "Control", "get_line", id, NoTimeout, n) : id \in ids, n \in {0, 3}}

\* the functions of the keys module
KeysMenu ==
    {Invocation("send_level", "keys", "send_level", 0, NoTimeout, v) : v \in {-1, 0, 100, 101}}
    \cup {Invocation("hotkey", "keys", "hotkey", 0, NoTimeout, k) : k \in 1..Len(KeyNames)}

HandleMenu == WindowMenu({0} \cup WinIds) \cup ControlMenu({0} \cup CtlIds) \cup KeysMenu

\* what the threads of the concurrent specification call
SpecA == [DefaultWindows EXCEPT !.title = Val(<<"a">>)]
SpecB ==
    [DefaultWindows EXCEPT !.title = Val(<<"b">>), !.text = Val(<<"t">>), !.hidden_windows = TRUE,
                           !.title_mode = "contains"]
SmallMenu == {Invocation("Control.check", "Control", "check", NumWins + 1, NoTimeout, 0)}

\* ------------------------------------------------------------ specification
Windows_call_steps(t) ==
    \/ Windows_call(t)
    \/ Windows_call_lock(t)
    \/ Windows_call_hidden_windows(t)
    \/ Windows_call_hidden_text(t)
    \/ Windows_call_title_mode(t)
    \/ Windows_call_text_mode(t)
    \/ Windows_call_delay(t)
    \/ Windows_call_cmd(t)
    \/ Windows_call_wake(t)
    \/ Windows_call_unlock(t)

Windows_wait_steps(t) ==
    \/ Windows__wait(t)
    \/ Windows__wait_timed_out(t)
    \/ Windows__wait_first(t)
    \/ Windows__wait_exit(t)

Windows_send_steps(t) ==
    \/ Windows_send_lock(t)
    \/ Windows_send_key_delay(t)
    \/ Windows_send_exit(t)

WindowHandle_call_steps(t) ==
    \/ WindowHandle_call(t)
    \/ WindowHandle_call_lock(t)
    \/ WindowHandle_call_hidden_windows(t)
    \/ WindowHandle_call_delay(t)
    \/ WindowHandle_call_cmd(t)
    \/ WindowHandle_call_unlock(t)
    \/ Control_call(t)
    \/ Control_call_except(t)
    \/ Control_call_exists(t)

Desktop_steps ==
    \/ \E w \in Hwnds : WindowAppears(w)
    \/ \E w \in Hwnds : WindowVanishes(w)
    \/ \E w \in WinIds \cup {0} : FocusChanges(w)

\* the desktop at the start: every window is up, or the topmost one is not
\* there yet; the topmost window or none has the focus
InitDesktops ==
    {d \in {[exists |-> Hwnds \ gone, active |-> x] : gone \in {{}, {1}}, x \in {0, 1}} :
        d.active \in {0} \cup d.exists}

InitThreads ==
    /\ lockOwner = 0
    /\ lockDepth = 0
    /\ pc = [t \in Threads |-> "idle"]
    /\ op = [t \in Threads |-> NoOp]
    /\ frame = [t \in Threads |-> NoFrame]
    /\ stk = [t \in Threads |-> <<>>]
    /\ val = [t \in Threads |-> NoOutcome]
    /\ out = [t \in Threads |-> NoOutcome]
    /\ cmdlog = [t \in Threads |-> <<>>]
    /\ loc = [t \in Threads |-> NoLocals]

\* the concurrent specification: every thread makes a call, starting from a
\* fresh backend, on a desktop that stands still
Init ==
    /\ desktop \in {[exists |-> Hwnds, active |-> x] : x \in {0, 1}}
    /\ ahk = InitAhk
    /\ InitThreads
    /\ nOps = [t \in Threads |-> 1]
    /\ nEnv = 0
    /\ settings = InitSettings
    /\ props = InitProps

Next ==
    \/ \E t \in Threads : Windows_exist(t, {SpecA})
    \/ \E t \in Threads : Windows_exist_ret(t)
    \/ \E t \in Threads : Windows_wait(t, {SpecB}, {1})
    \/ \E t \in Threads : Windows_wait_active(t, {SpecA}, {1})
    \/ \E t \in Threads : Windows_wait_inactive(t, {SpecA}, {1})
    \/ \E t \in Threads : CallerInvokes(t, SmallMenu)
    \/ \E t \in Threads : Control_check(t)
    \/ \E t \in Threads : Windows_wait_steps(t)
    \/ \E t \in Threads : Windows_call_steps(t)
    \/ \E t \in Threads : WindowHandle_call_steps(t)
    \/ \E t \in Threads : OpFinish(t)
    \/ \E t \in Threads : OpReturn(t)

Spec == Init /\ [][Next]_vars

\* the sequential specification: one caller, every spec, handle and timeout,
\* after any earlier use of the backend, while windows and controls come and go
InitS ==
    /\ desktop \in InitDesktops
    /\ ahk \in {[InitAhk EXCEPT !.LastFound = w] : w \in {0, 1}}
    /\ InitThreads
    /\ nOps = [t \in Threads |-> IF t = 1 THEN 1 ELSE 0]
    /\ nEnv = MaxEnv
    /\ settings = InitSettings
    /\ props = InitProps

NextS ==
    \/ Windows_exist(1, SpecSet)
    \/ Windows_exist_ret(1)
    \/ Windows_last(1, SpecSet)
    \/ Windows_get_active(1, SpecSet)
    \/ Windows_len(1, SpecSet)
    \/ Windows_len_ret(1)
    \/ Windows_iter(1, SpecSet)
    \/ Windows_iter_start(1)
    \/ Windows_iter_list(1)
    \/ Windows_iter_yield(1)
    \/ Windows_iter_next(1)
    \/ Windows_wait(1, SpecSet, Timeouts)
    \/ Windows_wait_active(1, SpecSet, Timeouts)
    \/ Windows_wait_inactive(1, SpecSet, Timeouts)
    \/ Windows_wait_close(1, SpecSet, Timeouts)
    \/ Windows_wait_close_ret(1)
    \/ Windows_close(1, SpecSet, Timeouts)
    \/ Windows_hide(1, SpecSet)
    \/ Windows_action_ret(1)
    \/ Windows_send(1, SpecSet)
    \/ Windows_wait_steps(1)
    \/ Windows_send_steps(1)
    \/ Windows_call_steps(1)
    \/ CallerInvokes(1, HandleMenu)
    \/ BaseWindow_exists(1)
    \/ BaseWindow_exists_ret(1)
    \/ BaseWindow_ex_style(1)
    \/ BaseWindow_ex_style_ret(1)
    \/ Window_always_on_top(1)
    \/ Window_always_on_top_test(1)
    \/ Window_always_on_top_in(1)
    \/ Window_close(1)
    \/ Window_close_ret(1)
    \/ Window_close_exists(1)
    \/ Window_wait_active(1)
    \/ Window_wait_active_ret(1)
    \/ Window_wait_inactive(1)
    \/ Window_wait_inactive_ret(1)
    \/ Window_wait_close(1)
    \/ BaseWindow_send(1)
    \/ BaseWindow_send_key_delay(1)
    \/ BaseWindow_send_except(1)
    \/ BaseWindow_send_message(1)
    \/ BaseWindow_send_message_except(1)
    \/ BaseWindow_send_message_exists(1)
    \/ BaseWindow_post_message(1)
    \/ BaseWindow_post_message_except(1)
    \/ BaseWindow_post_message_exists(1)
    \/ Window_get_control(1)
    \/ Window_get_control_ret(1)
    \/ Window_set_opacity(1)
    \/ send_level(1)
    \/ hotkey(1)
    \/ Control_check(1)
    \/ BaseWindow_class_name(1)
    \/ BaseWindow_class_name_ret(1)
    \/ Control_count_list_items(1)
    \/ Control_count_list_items_except(1)
    \/ Control_count_list_items_class(1)
    \/ Control_list_view_column_count(1)
    \/ Control_list_item_count(1)
    \/ Control_list_item_count_class(1)
    \/ Control_choose_item_index(1)
    \/ Control_choose_item_index_add(1)
    \/ Control_choose_item_index_call(1)
    \/ Control_choose_item_index_except(1)
    \/ Control_choose_item_index_raise(1)
    \/ Control_line_count(1)
    \/ Control_get_line(1)
    \/ Control_get_line_except(1)
    \/ Control_get_line_last(1)
    \/ WindowHandle_call_steps(1)
    \/ WindowHandle_call_title_mode(1)
    \/ WindowHandle_call_wake(1)
    \/ OpFinish(1)
    \/ OpReturn(1)
    \/ Desktop_steps

SpecS == InitS /\ [][NextS]_vars

\* the arguments callers refine specs with
FilterArgs ==
    {[NoArgs EXCEPT !.title = x, !.class_name = c, !.id = i, !.text = y, !.match = m] :
        x \in {UNSET, None, Val(<<"b">>)}, c \in {UNSET, None}, i \in {UNSET, Val(2)},
        y \in {UNSET, Val(<<"t">>)}, m \in {UNSET, None, Val("contains"), Val("fuzzy")}}
ExcludeArgs ==
    {[NoArgs EXCEPT !.title = x, !.text = y] :
        x \in {UNSET, None, Val(<<"a">>)}, y \in {UNSET, Val(<<"h">>)}}
FlagArgs == {[NoArgs EXCEPT !.flag = b] : b \in BOOLEAN}

\* the specification of spec refinement: one caller refines a spec, or
\* queries it with filter arguments
InitF ==
    /\ desktop \in InitDesktops
    /\ ahk = InitAhk
    /\ InitThreads
    /\ nOps = [t \in Threads |-> IF t = 1 THEN 1 ELSE 0]
    /\ nEnv = 0
    /\ settings = InitSettings
    /\ props = InitProps

NextF ==
    \/ Calls_filter(1, SpecSet, FilterArgs)
    \/ Calls_exclude(1, SpecSet, ExcludeArgs)
    \/ Calls_include_hidden_windows(1, SpecSet, FlagArgs)
    \/ Calls_exclude_hidden_windows(1, SpecSet, {NoArgs})
    \/ Calls_include_hidden_text(1, SpecSet, FlagArgs)
    \/ Calls_exclude_hidden_text(1, SpecSet, {NoArgs})
    \/ Calls_match_text_slow(1, SpecSet, FlagArgs)
    \/ filtering(1, SpecSet, FilterArgs)
    \/ Windows_exist_ret(1)
    \/ Windows_call(1)
    \/ Windows_call_lock(1)
    \/ Windows_call_hidden_windows(1)
    \/ Windows_call_hidden_text(1)
    \/ Windows_call_title_mode(1)
    \/ Windows_call_text_mode(1)
    \/ Windows_call_cmd(1)
    \/ Windows_call_unlock(1)
    \/ OpReturn(1)

SpecF == InitF /\ [][NextF]_vars

\* long waits next to short queries: every thread makes one call, a wait for
\* absence on a spec, a wait on a handle, or an existence query
WaitMenu == {Invocation("Window.wait_active", "Window", "wait_active", 1, tmo, 0) : tmo \in HandleTimeouts}

NextC ==
    \/ \E t \in Threads : Windows_wait_close(t, {SpecB}, {NoTimeout, 1})
    \/ \E t \in Threads : Windows_wait_close_ret(t)
    \/ \E t \in Threads : Windows_exist(t, {SpecA})
    \/ \E t \in Threads : Windows_exist_ret(t)
    \/ \E t \in Threads : CallerInvokes(t, WaitMenu)
    \/ \E t \in Threads : Window_wait_active(t)
    \/ \E t \in Threads : Window_wait_active_ret(t)
    \/ \E t \in Threads : Windows_call_steps(t)
    \/ \E t \in Threads : WindowHandle_call(t)
    \/ \E t \in Threads : WindowHandle_call_lock(t)
    \/ \E t \in Threads : WindowHandle_call_hidden_windows(t)
    \/ \E t \in Threads : WindowHandle_call_delay(t)
    \/ \E t \in Threads : WindowHandle_call_cmd(t)
    \/ \E t \in Threads : WindowHandle_call_wake(t)
    \/ \E t \in Threads : WindowHandle_call_unlock(t)
    \/ \E t \in Threads : OpFinish(t)
    \/ \E t \in Threads : OpReturn(t)

SpecC == Init /\ [][NextC]_vars

\* the specification of concurrent sends: thread 1 sends with the default
\* settings, every other thread with settings of its own (set_settings) that
\* ask for no key delay
OwnSettings ==
    [heap |-> <<default_settings, [default_settings EXCEPT !.key_delay = 0]>>,
     cur |-> [t \in Threads |-> IF t = 1 THEN 1 ELSE 2],
     scopes |-> [t \in Threads |-> <<>>],
     mgrs |-> <<>>,
     raising |-> [t \in Threads |-> FALSE]]
SendMenu ==
    {Invocation("Window.send", "Window", "send", id, NoTimeout, 0) : id \in {0, 1}}
    \cup {Invocation("Control.send", "Control", "send", NumWins + 1, NoTimeout, 0)}

InitK ==
    /\ desktop \in {[exists |-> Hwnds \ gone, active |-> 0] : gone \in {{}, {NumWins + 1}}}
    /\ ahk = InitAhk
    /\ InitThreads
    /\ nOps = [t \in Threads |-> 1]
    /\ nEnv = 0
    /\ settings = OwnSettings
    /\ props = InitProps

NextK ==
    \/ \E t \in Threads : Windows_send(t, {SpecB})
    \/ \E t \in Threads : Windows_send_lock(t)
    \/ \E t \in Threads : Windows_send_key_delay(t)
    \/ \E t \in Threads : Windows_send_exit(t)
    \/ \E t \in Threads : CallerInvokes(t, SendMenu)
    \/ \E t \in Threads : BaseWindow_send(t)
    \/ \E t \in Threads : BaseWindow_send_key_delay(t)
    \/ \E t \in Threads : BaseWindow_send_except(t)
    \/ \E t \in Threads : Windows_call(t)
    \/ \E t \in Threads : Windows_call_lock(t)
    \/ \E t \in Threads : Windows_call_hidden_windows(t)
    \/ \E t \in Threads : Windows_call_hidden_text(t)
    \/ \E t \in Threads : Windows_call_title_mode(t)
    \/ \E t \in Threads : Windows_call_text_mode(t)
    \/ \E t \in Threads : Windows_call_cmd(t)
    \/ \E t \in Threads : Windows_call_unlock(t)
    \/ \E t \in Threads : WindowHandle_call(t)
    \/ \E t \in Threads : WindowHandle_call_lock(t)
    \/ \E t \in Threads : WindowHandle_call_hidden_windows(t)
    \/ \E t \in Threads : WindowHandle_call_cmd(t)
    \/ \E t \in Threads : WindowHandle_call_unlock(t)
    \/ \E t \in Threads : Control_call(t)
    \/ \E t \in Threads : Control_call_except(t)
    \/ \E t \in Threads : Control_call_exists(t)
    \/ \E t \in Threads : OpFinish(t)
    \/ \E t \in Threads : OpReturn(t)

SpecK == InitK /\ [][NextK]_vars

\* the specification of group actions: one caller runs two group actions, on
\* the same spec object, or on two objects that may have equal fields
GroupSpecs ==
    {DefaultWindows,
     [DefaultWindows EXCEPT !.title = Val(<<"a">>)],
     [DefaultWindows EXCEPT !.title = Val(<<"b">>), !.hidden_windows = TRUE, !.title_mode = "contains"],
     [DefaultWindows EXCEPT !.text = Val(<<"h">>), !.exclude_title = Val(<<"a">>)],
     [DefaultWindows EXCEPT !.title = None],
     [DefaultWindows EXCEPT !.text_mode = "medium"]}
NumGroupActions == 2

InitG ==
    /\ desktop \in InitDesktops
    /\ ahk = InitAhk
    /\ InitThreads
    /\ nOps = [t \in Threads |-> IF t = 1 THEN NumGroupActions ELSE 0]
    /\ nEnv = 0
    /\ settings = InitSettings
    /\ props = InitProps

NextG ==
    \/ Windows_group(1, GroupSpecs, {1, 2}, {NoTimeout, 1})
    \/ Windows_group_action(1)
    \/ Windows_group_action_minimized(1)
    \/ Windows_group_action_cmd(1)
    \/ Windows_group_action_timeout(1)
    \/ Windows_group_action_exist(1)
    \/ Windows_call(1)
    \/ Windows_call_lock(1)
    \/ Windows_call_hidden_windows(1)
    \/ Windows_call_hidden_text(1)
    \/ Windows_call_title_mode(1)
    \/ Windows_call_text_mode(1)
    \/ Windows_call_delay(1)
    \/ Windows_call_cmd(1)
    \/ Windows_call_unlock(1)
    \/ OpReturn(1)

SpecG == InitG /\ [][NextG]_vars

\* the specification of the rectangle: one caller moves and reads windows and
\* controls twice in a row, on a desktop where the first window or the first
\* control may be missing
NumRectCalls == 2
RectHandles == {<<"Window", 0>>, <<"Window", 1>>, <<"Control", NumWins + 1>>}
RectMenu ==
    {Invocation("move", h[1], "move", h[2], NoTimeout, i) : h \in RectHandles, i \in 1..Len(MoveArgs)}
    \cup {Invocation(n, h[1], n, h[2], NoTimeout, i) :
            h \in RectHandles, n \in Setters, i \in {1, 4}}
    \cup {Invocation(n, h[1], n, h[2], NoTimeout, 0) :
            h \in RectHandles, n \in {"rect"} \cup DOMAIN FieldRet}

InitR ==
    /\ desktop \in {[exists |-> Hwnds \ gone, active |-> 0] : gone \in {{}, {1}, {NumWins + 1}}}
    /\ ahk = InitAhk
    /\ InitThreads
    /\ nOps = [t \in Threads |-> IF t = 1 THEN NumRectCalls ELSE 0]
    /\ nEnv = 0
    /\ settings = InitSettings
    /\ props = InitProps

HandleCallSteps(t) ==
    \/ WindowHandle_call(t)
    \/ WindowHandle_call_lock(t)
    \/ WindowHandle_call_hidden_windows(t)
    \/ WindowHandle_call_delay(t)
    \/ WindowHandle_call_cmd(t)
    \/ WindowHandle_call_unlock(t)
    \/ Control_call(t)
    \/ Control_call_except(t)
    \/ Control_call_exists(t)
    \/ OpFinish(t)
    \/ OpReturn(t)

NextR ==
    \/ CallerInvokes(1, RectMenu)
    \/ BaseWindow_rect(1)
    \/ BaseWindow_rect_ret(1)
    \/ BaseWindow_rect_field(1)
    \/ BaseWindow_position_ret(1)
    \/ BaseWindow_rect_field_ret(1)
    \/ BaseWindow_rect_setter(1)
    \/ BaseWindow_move_args(1)
    \/ BaseWindow_move(1)
    \/ BaseWindow_move_ret(1)
    \/ HandleCallSteps(1)

SpecR == InitR /\ [][NextR]_vars

\* the specification of the enabled and visible properties: one caller reads
\* and writes them twice in a row on windows and controls whose styles differ
\* in other bits as well
NumStyleCalls == 2
StyleHandles ==
    {<<"Window", 0>>, <<"Window", 1>>, <<"Window", 2>>,
     <<"Control", NumWins + 1>>, <<"Control", NumWins + NumCtls>>}
StyleMenu ==
    {Invocation(n, h[1], n, h[2], NoTimeout, 0) : h \in StyleHandles, n \in {"is_enabled", "is_visible"}}
    \cup {Invocation(n, h[1], n, h[2], NoTimeout, v) :
            h \in StyleHandles, n \in {"set_is_enabled", "set_is_visible"}, v \in {0, 1}}

InitY ==
    /\ desktop \in {[exists |-> Hwnds \ gone, active |-> 0] : gone \in {{}, {1}, {NumWins + 1}}}
    /\ ahk = InitAhk
    /\ InitThreads
    /\ nOps = [t \in Threads |-> IF t = 1 THEN NumStyleCalls ELSE 0]
    /\ nEnv = 0
    /\ settings = InitSettings
    /\ props \in {[InitProps EXCEPT !.style[1] = @ - c, !.style[NumWins + 1] = @ - c] : c \in {0, CAPTION}}

NextY ==
    \/ CallerInvokes(1, StyleMenu)
    \/ BaseWindow_style(1)
    \/ BaseWindow_style_ret(1)
    \/ BaseWindow_is_enabled(1)
    \/ BaseWindow_is_enabled_ret(1)
    \/ BaseWindow_is_visible(1)
    \/ BaseWindow_is_visible_ret(1)
    \/ BaseWindow_is_enabled_setter(1)
    \/ BaseWindow_is_visible_setter(1)
    \/ Window_enable_disable(1)
    \/ Window_show_hide(1)
    \/ Control_enable_disable(1)
    \/ Control_show_hide(1)
    \/ HandleCallSteps(1)

SpecY == InitY /\ [][NextY]_vars

\* the specification of the property getters: one caller reads one property
\* of a window or control that may be missing, may have an empty title or
\* text, and may have a transparency level or none
GetterMenu ==
    {Invocation(n, "Window", n, id, NoTimeout, 0) :
        id \in {0, 1, 2}, n \in {"title", "class_name", "style"} \cup DOMAIN GetSubcmd}
    \cup {Invocation(n, "Control", n, id, NoTimeout, 0) :
            id \in {0} \cup CtlIds, n \in {"text", "class_name"}}

InitT ==
    /\ desktop \in {[exists |-> Hwnds \ gone, active |-> 0] : gone \in {{}, {1}, {NumWins + 1}}}
    /\ ahk = InitAhk
    /\ InitThreads
    /\ nOps = [t \in Threads |-> IF t = 1 THEN 1 ELSE 0]
    /\ nEnv = 0
    /\ settings = InitSettings
    /\ props \in {[InitProps EXCEPT !.title[1] = ti, !.opacity[2] = o] :
                    ti \in {<<>>, WinTitle(1)}, o \in {-1, 128}}

NextT ==
    \/ CallerInvokes(1, GetterMenu)
    \/ Window_title(1)
    \/ Window_title_exists(1)
    \/ Window_title_ret(1)
    \/ Control_text(1)
    \/ Control_text_ret(1)
    \/ Window_get_property(1)
    \/ Window_get(1)
    \/ BaseWindow_class_name(1)
    \/ BaseWindow_class_name_ret(1)
    \/ BaseWindow_style(1)
    \/ BaseWindow_style_ret(1)
    \/ BaseWindow_exists(1)
    \/ BaseWindow_exists_ret(1)
    \/ WindowHandle_call(1)
    \/ WindowHandle_call_lock(1)
    \/ WindowHandle_call_hidden_windows(1)
    \/ WindowHandle_call_cmd(1)
    \/ WindowHandle_call_unlock(1)
    \/ Control_call(1)
    \/ Control_call_except(1)
    \/ Control_call_exists(1)
    \/ OpFinish(1)
    \/ OpReturn(1)

SpecT == InitT /\ [][NextT]_vars

\* the specification of the list and edit queries: one caller makes one query
\* on a control that may be missing; the first control is of any class and
\* may have an entry selected
ListMenu ==
    {Invocation(n, "Control", n, id, NoTimeout, 0) :
        id \in {0} \cup CtlIds,
        n \in {"list_choice_index", "list_item_index", "list_item_count", "list_items", "list_choice"}}
    \cup {Invocation("get_list_items", "Control", "get_list_items", id, NoTimeout, c) :
            id \in {0} \cup CtlIds, c \in 1..Len(Columns)}
    \cup {Invocation("choose_item_index", "Control", "choose_item_index", id, NoTimeout, i) :
            id \in CtlIds, i \in {-1, 0, 5}}
    \cup {Invocation("get_line", "Control", "get_line", id, NoTimeout, n) : id \in CtlIds, n \in {0, 3}}

InitL ==
    /\ desktop \in {[exists |-> Hwnds \ gone, active |-> 0] : gone \in {{}, {NumWins + 1}}}
    /\ ahk \in {[InitAhk EXCEPT !.LastFound = w] : w \in {0, 1}}
    /\ InitThreads
    /\ nOps = [t \in Threads |-> IF t = 1 THEN 1 ELSE 0]
    /\ nEnv = 0
    /\ settings = InitSettings
    /\ props \in {[InitProps EXCEPT !.class[NumWins + 1] = c, !.sel[NumWins + 1] = e] :
                    c \in 1..4, e \in {-1, 0}}

NextL ==
    \/ CallerInvokes(1, ListMenu)
    \/ Control_list_index(1)
    \/ Control_list_choice_index_class(1)
    \/ Control_list_item_index_class(1)
    \/ Control_list_choice(1)
    \/ Control_list_choice_except(1)
    \/ Control_list_choice_check(1)
    \/ Control_list_items(1)
    \/ Control_list_items_except(1)
    \/ Control_list_items_split(1)
    \/ Control_get_list_items(1)
    \/ Control_get_list_items_add(1)
    \/ Control_get_list_items_call(1)
    \/ Control_get_list_items_except(1)
    \/ Control_get_list_items_class(1)
    \/ Control_get_list_items_range(1)
    \/ Control_list_item_count(1)
    \/ Control_list_item_count_class(1)
    \/ Control_count_list_items(1)
    \/ Control_count_list_items_except(1)
    \/ Control_count_list_items_class(1)
    \/ Control_list_view_column_count(1)
    \/ Control_choose_item_index(1)
    \/ Control_choose_item_index_add(1)
    \/ Control_choose_item_index_call(1)
    \/ Control_choose_item_index_except(1)
    \/ Control_choose_item_index_raise(1)
    \/ Control_line_count(1)
    \/ Control_get_line(1)
    \/ Control_get_line_except(1)
    \/ Control_get_line_last(1)
    \/ BaseWindow_class_name(1)
    \/ BaseWindow_class_name_ret(1)
    \/ BaseWindow_send_message(1)
    \/ BaseWindow_send_message_except(1)
    \/ BaseWindow_send_message_exists(1)
    \/ BaseWindow_exists(1)
    \/ BaseWindow_exists_ret(1)
    \/ WindowHandle_call_wake(1)
    \/ HandleCallSteps(1)

SpecL == InitL /\ [][NextL]_vars

\* ------------------------------------------------------------- local_settings

\* the settings objects the model allows, which bound the nesting of scopes
MaxObjects == 4
\* the fields a body assigns and the values it assigns to them
Fields == {"win_delay", "key_delay", "key_duration", "control_delay"}
NewDelays == {0}

\* get_settings(): the current settings object of the thread; on LookupError
\* a copy of default_settings becomes the current settings
get_settings_object(s, t) ==
    IF s.cur[t] # 0 THEN s
    ELSE [s EXCEPT !.heap = Append(@, @[1]), !.cur[t] = Len(s.heap) + 1]

\* _SettingsManager.__init__ keeping the object it is given
SettingsManager_init_same_object(s, source) ==
    [s EXCEPT !.mgrs = Append(@, [new_settings |-> source, prior_settings |-> 0])]
\* _SettingsManager.__init__: the manager holds a copy of the settings
SettingsManager_init(s, source) ==
    [s EXCEPT !.heap = Append(@, @[source]),
              !.mgrs = Append(@, [new_settings |-> Len(s.heap) + 1, prior_settings |-> 0])]

\* _SettingsManager.activate: remembers the current settings and makes
\* new_settings current; the scope notes the object and the values that were
\* current at the entry
SettingsManager_activate(s, t, m) ==
    LET g == get_settings_object(s, t)
    IN  [g EXCEPT !.mgrs[m].prior_settings = g.cur[t],
                  !.cur[t] = g.mgrs[m].new_settings,
                  !.scopes[t] = <<[mgr |-> m, before |-> g.heap[g.cur[t]], entered |-> g.cur[t],
                                   assigned |-> FALSE]>> \o @]

\* with local_settings(arg) as settings: local_settings builds the manager
\* from arg, or from get_settings() when arg is None (0), and __enter__
\* activates it
local_settings(t, arg) ==
    /\ ~settings.raising[t]
    /\ Len(settings.heap) + (IF arg = 0 /\ settings.cur[t] = 0 THEN 2 ELSE 1) <= MaxObjects
    /\ LET g == IF arg = 0 THEN get_settings_object(settings, t) ELSE settings
           source == IF arg = 0 THEN g.cur[t] ELSE arg
           made == SettingsManager_init(g, source)
       IN  settings' = SettingsManager_activate(made, t, Len(made.mgrs))
    /\ UNCHANGED <<desktop, ahk, lockOwner, lockDepth, pc, op, frame, stk, val, out, cmdlog,
                   loc, nOps, nEnv, props>>

\* the body of the innermost scope assigns a field of the settings the
\* with statement gave it; the body of one scope assigns one field, and a
\* nested scope copies what the enclosing body assigned
Settings_setattr(t, field, value) ==
    /\ ~settings.raising[t]
    /\ settings.scopes[t] # <<>>
    /\ ~Head(settings.scopes[t]).assigned
    /\ LET scoped == settings.mgrs[Head(settings.scopes[t]).mgr].new_settings
       IN  settings' = [settings EXCEPT !.heap[scoped][field] = value,
                                        !.scopes[t][1].assigned = TRUE]
    /\ UNCHANGED <<desktop, ahk, lockOwner, lockDepth, pc, op, frame, stk, val, out, cmdlog,
                   loc, nOps, nEnv, props>>

\* the body of the innermost scope raises
Body_raise(t) ==
    /\ ~settings.raising[t]
    /\ settings.scopes[t] # <<>>
    /\ settings' = [settings EXCEPT !.raising[t] = TRUE]
    /\ UNCHANGED <<desktop, ahk, lockOwner, lockDepth, pc, op, frame, stk, val, out, cmdlog,
                   loc, nOps, nEnv, props>>

\* an except clause around a with statement handles what its body raised
Body_except(t) ==
    /\ settings.raising[t]
    /\ settings' = [settings EXCEPT !.raising[t] = FALSE]
    /\ UNCHANGED <<desktop, ahk, lockOwner, lockDepth, pc, op, frame, stk, val, out, cmdlog,
                   loc, nOps, nEnv, props>>

\* _SettingsManager.__exit__, at the end of the body or with the exception
\* the body raised, which it lets through: set_settings(prior_settings)
SettingsManager_exit(t) ==
    /\ settings.scopes[t] # <<>>
    /\ LET m == Head(settings.scopes[t]).mgr
       IN  settings' = [settings EXCEPT !.cur[t] = settings.mgrs[m].prior_settings,
                                        !.scopes[t] = Tail(@)]
    /\ UNCHANGED <<desktop, ahk, lockOwner, lockDepth, pc, op, frame, stk, val, out, cmdlog,
                   loc, nOps, nEnv, props>>

\* the specification of settings scopes: thread 1 starts with
\* default_settings current, the last thread with no settings yet; a scope is
\* built from the current settings or from default_settings
ScopeThreads == {1, NumThreads}
InitE ==
    /\ desktop = [exists |-> Hwnds, active |-> 0]
    /\ ahk = InitAhk
    /\ InitThreads
    /\ nOps = [t \in Threads |-> 0]
    /\ nEnv = 0
    /\ settings = InitSettings
    /\ props = InitProps

NextE ==
    \/ \E t \in ScopeThreads : \E arg \in {0, 1} : local_settings(t, arg)
    \/ \E t \in ScopeThreads : \E field \in Fields : \E value \in NewDelays :
          Settings_setattr(t, field, value)
    \/ \E t \in ScopeThreads : Body_raise(t)
    \/ \E t \in ScopeThreads : Body_except(t)
    \/ \E t \in ScopeThreads : SettingsManager_exit(t)

SpecE == InitE /\ [][NextE]_vars


\* -------------------------------------------------------------- get_settings

\* a thread calls get_settings(): its first call makes a copy of
\* default_settings its current settings
get_settings_call(t) ==
    /\ settings.cur[t] = 0
    /\ settings' = get_settings_object(settings, t)
    /\ UNCHANGED <<desktop, ahk, lockOwner, lockDepth, pc, op, frame, stk, val, out, cmdlog,
                   loc, nOps, nEnv, props>>

\* get_settings().field = value: the assignment is made to the object
\* get_settings() returns, the current settings of the thread
get_settings_setattr(t, field, value) ==
    /\ LET g == get_settings_object(settings, t)
       IN  /\ g.heap[g.cur[t]][field] # value
           /\ settings' = [g EXCEPT !.heap[g.cur[t]][field] = value]
    /\ UNCHANGED <<desktop, ahk, lockOwner, lockDepth, pc, op, frame, stk, val, out, cmdlog,
                   loc, nOps, nEnv, props>>

\* the specification of settings kept per thread: the importing thread 1 has
\* had set_settings(default_settings), the other threads start later
NextD ==
    \/ \E t \in Threads : get_settings_call(t)
    \/ \E t \in Threads : \E field \in Fields : \E value \in NewDelays :
          get_settings_setattr(t, field, value)

SpecD == InitE /\ [][NextD]_vars

\* ------------------------------------------------------ the window contexts

\* window_context, nonexistent_window_context, active_window_context and
\* inactive_window_context; the second and the fourth negate their query
ContextNames ==
    {"Windows.window_context", "Windows.nonexistent_window_context",
     "Windows.active_window_context", "Windows.inactive_window_context"}
ContextNegates(name) ==
    name \in {"Windows.nonexistent_window_context", "Windows.inactive_window_context"}
ContextActive(name) ==
    name \in {"Windows.active_window_context", "Windows.inactive_window_context"}

\* @filtering around hotkeys.HotkeyContext(lambda: ...): the lambda keeps the
\* filtered self and is not called
Windows_window_context(t, specs, args) ==
    /\ \E self \in specs, a \in args, name \in ContextNames :
        LET o == Windows_filter(self, a) IN
        /\ Begin(t, name, o.result, 0, NoTimeout, IF o.raised THEN "done" ELSE "context_created")
        /\ loc' = [loc EXCEPT ![t] = [NoLocals EXCEPT !.args = a, !.before = self]]
        /\ out' = [out EXCEPT ![t] = IF o.raised
                                     THEN Raised("ValueError", "not a valid title match mode")
                                     ELSE @]
    /\ Quiet /\ UNCHANGED <<frame, stk, val, cmdlog, nEnv, settings, props>>

\* the context calls its predicate: self.exist() or self.get_active()
HotkeyContext_predicate(t) ==
    /\ pc[t] = "context_created"
    /\ LET self == op[t].self
           query == IF ContextActive(op[t].name) /\ BlankQuery(Windows__query(self))
                    THEN ActiveQuery ELSE Windows__query(self)
       IN  Call(t, WindowsFrame(self, IF ContextActive(op[t].name) THEN "WinActive" ELSE "WinExist",
                                "", query, NoTimeout, FALSE), "predicate_ret")
    /\ Goto(t, "W_call")
    /\ Quiet /\ UNCHANGED <<op, val, out, cmdlog, loc, nOps, nEnv, settings, props>>

\* every predicate answering with the window found
HotkeyContext_predicate_ret_plain(t) ==
    /\ pc[t] = "predicate_ret"
    /\ Finish(t, Propagate(t, WindowOr0(val[t].val)))
    /\ Quiet /\ UNCHANGED <<op, frame, stk, val, cmdlog, loc, nOps, nEnv, settings, props>>

\* the predicate answers: the Window of exist() or get_active(), or `not` it
HotkeyContext_predicate_ret(t) ==
    /\ pc[t] = "predicate_ret"
    /\ Finish(t, Propagate(t, IF ContextNegates(op[t].name)
                               THEN PyBool(~Truthy(WindowOr0(val[t].val)))
                               ELSE WindowOr0(val[t].val)))
    /\ Quiet /\ UNCHANGED <<op, frame, stk, val, cmdlog, loc, nOps, nEnv, settings, props>>

\* the specification of window contexts: one caller makes a context from a
\* spec and filter arguments, and the context evaluates its predicate
ContextArgs ==
    {[NoArgs EXCEPT !.title = x, !.id = i, !.match = m] :
        x \in {UNSET, None, Val(<<"b">>)}, i \in {UNSET, Val(2)},
        m \in {UNSET, Val("contains"), Val("fuzzy")}}

NextX ==
    \/ Windows_window_context(1, SpecSet, ContextArgs)
    \/ HotkeyContext_predicate(1)
    \/ HotkeyContext_predicate_ret(1)
    \/ Windows_call(1)
    \/ Windows_call_lock(1)
    \/ Windows_call_hidden_windows(1)
    \/ Windows_call_hidden_text(1)
    \/ Windows_call_title_mode(1)
    \/ Windows_call_text_mode(1)
    \/ Windows_call_cmd(1)
    \/ Windows_call_unlock(1)
    \/ OpReturn(1)

SpecX == InitF /\ [][NextX]_vars

\* -------------------------------------------------------- the style catalogs

\* class WindowStyle(enum.IntFlag): each value is the set of its bits, bit 0 the
\* lowest; `|` is the union of two values
WindowStyle ==
    LET flag ==
            [BORDER |-> {23}, CAPTION |-> {22, 23}, CHILD |-> {30}, CHILDWINDOW |-> {30},
             CLIPCHILDREN |-> {25}, CLIPSIBLINGS |-> {26}, DISABLED |-> {27},
             DLGFRAME |-> {22}, GROUP |-> {17}, HSCROLL |-> {20}, ICONIC |-> {29},
             MAXIMIZE |-> {24}, MAXIMIZEBOX |-> {16}, MINIMIZE |-> {29}, MINIMIZEBOX |-> {17},
             OVERLAPPED |-> {}, POPUP |-> {31}, SIZEBOX |-> {18}, SYSMENU |-> {19},
             TABSTOP |-> {16}, THICKFRAME |-> {18}, TILED |-> {}, VISIBLE |-> {28},
             VSCROLL |-> {21}]
    IN  [n \in DOMAIN flag \cup {"OVERLAPPEDWINDOW", "POPUPWINDOW", "TILEDWINDOW"} |->
            CASE n = "OVERLAPPEDWINDOW" -> flag.OVERLAPPED \cup flag.CAPTION \cup flag.SYSMENU \cup flag.THICKFRAME \cup flag.MINIMIZEBOX \cup flag.MAXIMIZEBOX
              [] n = "POPUPWINDOW" -> flag.POPUP \cup flag.BORDER \cup flag.SYSMENU
              [] n = "TILEDWINDOW" -> flag.OVERLAPPED \cup flag.CAPTION \cup flag.SYSMENU \cup flag.THICKFRAME \cup flag.MINIMIZEBOX \cup flag.MAXIMIZEBOX
              [] OTHER -> flag[n]]

\* class ExWindowStyle(enum.IntFlag)
ExWindowStyle ==
    LET flag ==
            [ACCEPTFILES |-> {4}, APPWINDOW |-> {18}, CLIENTEDGE |-> {9}, COMPOSITED |-> {25},
             CONTEXTHELP |-> {10}, CONTROLPARENT |-> {16}, DLGMODALFRAME |-> {0},
             LAYERED |-> {19}, LAYOUTRTL |-> {22}, LEFT |-> {}, LEFTSCROLLBAR |-> {14},
             LTRREADING |-> {}, MDICHILD |-> {6}, NOACTIVATE |-> {27},
             NOINHERITLAYOUT |-> {20}, NOPARENTNOTIFY |-> {2}, NOREDIRECTIONBITMAP |-> {21},
             RIGHT |-> {12}, RIGHTSCROLLBAR |-> {}, RTLREADING |-> {13}, STATICEDGE |-> {17},
             TOOLWINDOW |-> {7}, TOPMOST |-> {3}, TRANSPARENT |-> {5}, WINDOWEDGE |-> {8}]
    IN  [n \in DOMAIN flag \cup {"OVERLAPPEDWINDOW", "PALETTEWINDOW"} |->
            CASE n = "OVERLAPPEDWINDOW" -> flag.WINDOWEDGE \cup flag.CLIENTEDGE
              [] n = "PALETTEWINDOW" -> flag.WINDOWEDGE \cup flag.TOOLWINDOW \cup flag.TOPMOST
              [] OTHER -> flag[n]]

Catalogs == {"WindowStyle", "ExWindowStyle"}
Catalog(catalog) == IF catalog = "WindowStyle" THEN WindowStyle ELSE ExWindowStyle

\* the flags a preset is the `|` of; CAPTION is written as one number, and
\* is the preset of BORDER and DLGFRAME
Constituents(catalog, preset) ==
    CASE catalog = "WindowStyle" /\ preset = "CAPTION" -> {"BORDER", "DLGFRAME"}
      [] catalog = "WindowStyle" /\ preset \in {"OVERLAPPEDWINDOW", "TILEDWINDOW"} ->
            {"OVERLAPPED", "CAPTION", "SYSMENU", "THICKFRAME", "MINIMIZEBOX", "MAXIMIZEBOX"}
      [] catalog = "WindowStyle" /\ preset = "POPUPWINDOW" -> {"POPUP", "BORDER", "SYSMENU"}
      [] catalog = "ExWindowStyle" /\ preset = "OVERLAPPEDWINDOW" -> {"WINDOWEDGE", "CLIENTEDGE"}
      [] catalog = "ExWindowStyle" /\ preset = "PALETTEWINDOW" -> {"WINDOWEDGE", "TOOLWINDOW", "TOPMOST"}
      [] OTHER -> {}
Presets(catalog) == {n \in DOMAIN Catalog(catalog) : Constituents(catalog, n) # {}}

\* a membership test that is true when the value has any bit of the flag
IntFlag_contains_any_bit(value, flag) == value \cap flag # {}
\* `flag in value` of an IntFlag: every bit of the flag is in the value
IntFlag_contains(value, flag) == flag \subseteq value

\* the WindowStyle and the ExWindowStyle value a caller holds
PyStyles(style, ex_style) == [k |-> "styles", v |-> <<style, ex_style>>]
StyleOf(v, catalog) == IF catalog = "WindowStyle" THEN v.v[1] ELSE v.v[2]

\* the unions a caller makes of the flags of one value
MaxUnions == 2
\* the flags the callers use: the presets, their constituents, and flags
\* that are in no preset
CallerFlags(catalog) ==
    Presets(catalog) \cup UNION {Constituents(catalog, p) : p \in Presets(catalog)}
    \cup (IF catalog = "WindowStyle" THEN {"VISIBLE"} ELSE {"LAYERED"})

\* a caller starts from WindowStyle(0) and ExWindowStyle(0)
IntFlag_new(t) ==
    /\ pc[t] = "idle"
    /\ nOps[t] > 0
    /\ nOps' = [nOps EXCEPT ![t] = @ - 1]
    /\ op' = [op EXCEPT ![t] = [NoOp EXCEPT !.name = "IntFlag", !.cls = "IntFlag"]]
    /\ val' = [val EXCEPT ![t] = Returned(PyStyles({}, {}))]
    /\ Goto(t, "flags")
    /\ Quiet /\ UNCHANGED <<frame, stk, out, cmdlog, loc, nEnv, settings, props>>

\* value | Catalog.NAME on the value of that catalog
IntFlag_or(t, catalog, name) ==
    /\ pc[t] = "flags"
    /\ Len(loc[t].msgs) < MaxUnions
    /\ LET v == val[t].val
           joined == StyleOf(v, catalog) \cup Catalog(catalog)[name]
       IN  val' = [val EXCEPT ![t] = Returned(IF catalog = "WindowStyle"
                                               THEN PyStyles(joined, v.v[2])
                                               ELSE PyStyles(v.v[1], joined))]
    /\ loc' = [loc EXCEPT ![t].msgs = Append(@, <<catalog, name>>)]
    /\ Quiet /\ UNCHANGED <<pc, op, frame, stk, out, cmdlog, nOps, nEnv, settings, props>>

\* Catalog.NAME in value, as in `WindowStyle.VISIBLE in style`
IntFlag_in(t, catalog, name) ==
    /\ pc[t] = "flags"
    /\ op' = [op EXCEPT ![t].name = "IntFlag.__contains__", ![t].cls = catalog]
    /\ loc' = [loc EXCEPT ![t].opt = name]
    /\ Finish(t, Returned(PyBool(IntFlag_contains(StyleOf(val[t].val, catalog),
                                                  Catalog(catalog)[name]))))
    /\ Quiet /\ UNCHANGED <<frame, stk, val, cmdlog, nOps, nEnv, settings, props>>

\* the specification of style values: one caller joins flags of the two
\* catalogs and tests a flag
InitM ==
    /\ desktop = [exists |-> Hwnds, active |-> 0]
    /\ ahk = InitAhk
    /\ InitThreads
    /\ nOps = [t \in Threads |-> IF t = 1 THEN 1 ELSE 0]
    /\ nEnv = 0
    /\ settings = InitSettings
    /\ props = InitProps

NextM ==
    \/ IntFlag_new(1)
    \/ \E catalog \in Catalogs : \E name \in CallerFlags(catalog) : IntFlag_or(1, catalog, name)
    \/ \E catalog \in Catalogs : \E name \in CallerFlags(catalog) : IntFlag_in(1, catalog, name)
    \/ OpReturn(1)

SpecM == InitM /\ [][NextM]_vars

\* --------------------------------------------------- the fragments as strings

\* " ".join(parts), with f"ahk_class {x}" and the like written out
RECURSIVE Joined_parts(_)
Joined_parts(parts) ==
    IF parts = <<>> THEN <<>>
    ELSE LET p == Head(parts)
             s == IF p.crit = "title" THEN p.v ELSE <<p.crit, " ">> \o p.v
         IN  IF Len(parts) = 1 THEN s ELSE s \o <<" ">> \o Joined_parts(Tail(parts))

\* (*self._include(), *self._exclude()) as the four strings handed to a command
Fragments(self) ==
    LET q == Windows__query(self)
    IN  Returned(PyTuple(<<Joined_parts(q.title), q.text, q.extitle, q.extext>>))

\* the specs whose fragments are taken: every field constrained or not
QuerySpecs ==
    {[DefaultWindows EXCEPT !.title = x, !.class_name = c, !.id = i, !.pid = p, !.exe = e,
                            !.text = y, !.exclude_title = ex, !.exclude_text = ey] :
        x \in {UNSET, Val(<<>>), Val(<<"a">>)}, c \in {UNSET, Val(<<"Notepad">>)},
        i \in {UNSET, Val(2)}, p \in {UNSET, Val(101)}, e \in {UNSET, Val(<<"b">>)},
        y \in {UNSET, Val(<<"t">>)}, ex \in {UNSET, Val(<<"a">>)}, ey \in {UNSET, Val(<<"h">>)}}

\* a caller has a spec and a second spec equal to it
Windows__query_specs(t, specs) ==
    /\ \E self \in specs :
        \* Windows(...) made again with the field values of self
        LET other == [f \in DOMAIN self |-> self[f]] IN
        /\ Begin(t, "Windows._query", self, 0, NoTimeout, "query")
        /\ frame' = [frame EXCEPT ![t] = [NoFrame EXCEPT !.self = other]]
    /\ Quiet /\ UNCHANGED <<stk, val, out, cmdlog, loc, nEnv, settings, props>>

\* self._query(), kept
Windows__query_first(t) ==
    /\ pc[t] = "query"
    /\ loc' = [loc EXCEPT ![t].res = Fragments(op[t].self)]
    /\ Goto(t, "query_again")
    /\ Quiet /\ UNCHANGED <<op, frame, stk, val, out, cmdlog, nOps, nEnv, settings, props>>

\* self._query() once more
Windows__query_again(t) ==
    /\ pc[t] = "query_again"
    /\ val' = [val EXCEPT ![t] = Fragments(op[t].self)]
    /\ Goto(t, "query_other")
    /\ Quiet /\ UNCHANGED <<op, frame, stk, out, cmdlog, loc, nOps, nEnv, settings, props>>

\* other._query()
Windows__query_other(t) ==
    /\ pc[t] = "query_other"
    /\ Finish(t, Fragments(frame[t].self))
    /\ Quiet /\ UNCHANGED <<op, frame, stk, val, cmdlog, loc, nOps, nEnv, settings, props>>

NextQ ==
    \/ Windows__query_specs(1, QuerySpecs)
    \/ Windows__query_first(1)
    \/ Windows__query_again(1)
    \/ Windows__query_other(1)
    \/ OpReturn(1)

SpecQ == InitM /\ [][NextQ]_vars

\* ---------------------------------------------------------- waits that end

\* the specification of waits with a timeout: one caller waits, with a
\* timeout of 0 or of one second, on a desktop that does not change; the
\* caller's thread keeps running and the backend answers a command whenever it
\* has an answer
TimedWaits(t) ==
    \/ Windows_wait(t, {SpecA, SpecB}, {0, 1})
    \/ Windows_wait_active(t, {SpecA}, {0, 1})
    \/ Windows_wait_inactive(t, {SpecA}, {0, 1})
    \/ Windows_wait_close(t, {SpecA, SpecB}, {0, 1})

NextW ==
    \/ TimedWaits(1)
    \/ Windows_wait_close_ret(1)
    \/ Windows_wait_steps(1)
    \/ Windows_call_steps(1)

SpecW == InitF /\ [][NextW]_vars /\ WF_vars(NextW)

\* ------------------------------------------------- threads sharing the lock

\* what one thread does in the specification of lock progress: operations
\* that acquire the lock inside a section that holds it, and blocking
\* commands that are given a timeout
LockSteps(t) ==
    \/ Windows_activate(t, {SpecA}, {NoTimeout, 1})
    \/ Windows_activate_lock(t)
    \/ Windows_activate_wait(t)
    \/ Windows_activate_exit(t)
    \/ Windows_wait(t, {SpecB}, {1})
    \/ Windows_wait_close(t, {SpecA}, {1})
    \/ Windows_wait_close_ret(t)
    \/ Windows_send(t, {SpecB})
    \/ Windows_send_steps(t)
    \/ Windows_wait_steps(t)
    \/ Windows_call_steps(t)

NextZ == \E t \in Threads : LockSteps(t)

\* every thread keeps running, and the backend answers a command whenever it
\* has an answer
SpecZ == Init /\ [][NextZ]_vars /\ \A t \in Threads : WF_vars(LockSteps(t))

\* ------------------------------------------------- groups with a shared name
\* two specs that differ in their title only and whose hashes agree, a spec
\* with a text, and the default spec
SharingSpecs ==
    {DefaultWindows,
     [DefaultWindows EXCEPT !.title = Val(<<"a">>)],
     [DefaultWindows EXCEPT !.title = Val(<<"b">>)],
     [DefaultWindows EXCEPT !.text = Val(<<"h">>)]}

NextH ==
    \/ Windows_group(1, SharingSpecs, {1}, {NoTimeout, 1})
    \/ Windows_group_action(1)
    \/ Windows_group_action_minimized(1)
    \/ Windows_group_action_cmd(1)
    \/ Windows_group_action_timeout(1)
    \/ Windows_group_action_exist(1)
    \/ Windows_call(1)
    \/ Windows_call_lock(1)
    \/ Windows_call_hidden_windows(1)
    \/ Windows_call_hidden_text(1)
    \/ Windows_call_title_mode(1)
    \/ Windows_call_text_mode(1)
    \/ Windows_call_delay(1)
    \/ Windows_call_cmd(1)
    \/ Windows_call_unlock(1)
    \/ OpReturn(1)

SpecH == InitG /\ [][NextH]_vars

\* ------------------------------------------------ managers entered again
\* the with statements one thread may have open at a time
MaxDepth == 3

\* with manager: on a manager that local_settings returned earlier, which
\* may still be open further out
SettingsManager_enter(t, m) ==
    /\ ~settings.raising[t]
    /\ Len(settings.scopes[t]) < MaxDepth
    /\ settings' = SettingsManager_activate(settings, t, m)
    /\ UNCHANGED <<desktop, ahk, lockOwner, lockDepth, pc, op, frame, stk, val, out, cmdlog,
                   loc, nOps, nEnv, props>>

\* one thread opens scopes on new managers and on the managers it has
NextN ==
    \/ \E arg \in {0, 1} : Len(settings.scopes[1]) < MaxDepth /\ local_settings(1, arg)
    \/ \E m \in 1..MaxObjects : m <= Len(settings.mgrs) /\ SettingsManager_enter(1, m)
    \/ \E value \in NewDelays : Settings_setattr(1, "win_delay", value)
    \/ Body_raise(1)
    \/ Body_except(1)
    \/ SettingsManager_exit(1)

SpecN == InitE /\ [][NextN]_vars

TypeOK ==
    /\ lockOwner \in {0} \cup Threads
    /\ \A t \in Threads : settings.cur[t] \in 0..Len(settings.heap)
    /\ DOMAIN props.rect = Hwnds
    /\ lockDepth \in 0..3
    /\ (lockOwner = 0) = (lockDepth = 0)

\* ------------------------------------------------------------------ claims
Last(log) == log[Len(log)]
ConfigWrites ==
    {"DetectHiddenWindows", "DetectHiddenText", "SetTitleMatchMode", "SetWinDelay",
     "SetKeyDelay", "SetControlDelay"}
Running(t) == pc[t] \notin {"idle", "done"}
\* thread t sends a command to the backend in this step
Issues(t) == Len(cmdlog'[t]) > Len(cmdlog[t])
\* thread u has written configuration and not yet sent the command that needs it
Configuring(u) ==
    /\ Running(u)
    /\ ~val[u].raised
    /\ Len(cmdlog[u]) > 0
    /\ Last(cmdlog[u])[1] \in ConfigWrites
WaitsForLock(u) ==
    /\ pc[u] \in {"W_lock", "H_lock", "_wait", "send_lock", "send"}
    /\ lockOwner \notin {0, u}

\* C1: every backend command is issued while the issuing thread holds the
\* global lock, and no thread issues a command while another thread is between
\* its first configuration write and the command that depends on it.
C1_CommandsUnderLock ==
    [][\A t \in Threads :
        Issues(t) => /\ lockOwner = t
                     /\ \A u \in Threads \ {t} : ~Configuring(u)]_vars

\* one thread is between its configuration writes and its command while
\* another thread wants the lock
C1_Witness ==
    \E t \in Threads, u \in Threads :
        t # u /\ Configuring(t) /\ pc[t] \in {"W_cmd", "H_cmd"} /\ WaitsForLock(u)

NoExcludedField(self) ==
    \A f \in {"title", "class_name", "id", "pid", "exe", "text", "exclude_title", "exclude_text"} :
        self[f] # None
\* the order the backend is to receive a Windows._call in
ExpectedSequence(fr) ==
    <<<<"DetectHiddenWindows", OnOff(fr.self.hidden_windows)>>>>
    \o (IF fr.self.text # UNSET \/ fr.self.exclude_text # UNSET
        THEN <<<<"DetectHiddenText", OnOff(fr.self.hidden_text)>>>> ELSE <<>>)
    \o <<<<"SetTitleMatchMode", TitleModeArg(fr.self.title_mode)>>>>
    \o <<<<"SetTitleMatchMode", fr.self.text_mode>>>>
    \o (IF fr.set_delay THEN <<<<"SetWinDelay", "">>>> ELSE <<>>)
    \o <<<<fr.cmd, fr.sub>>>>
Suffix(log, n) == SubSeq(log, Len(log) - n + 1, Len(log))
\* the command of the Windows._call in progress has just been sent
CommandSent(t) ==
    /\ frame[t].cls = "Windows"
    /\ pc[t] \in {"W_block", "W_unlock"}
    /\ ~val[t].raised \/ val[t].exc = "Error"
InsideCall(t) ==
    /\ frame[t].cls = "Windows"
    /\ pc[t] \in {"W_hidden_windows", "W_hidden_text", "W_title_mode", "W_text_mode", "W_delay",
                  "W_cmd", "W_block", "W_unlock"}

\* C2: for a Windows query or action on a spec with no excluded field the
\* backend receives, inside one hold of the global lock and in this order:
\* hidden-window visibility, hidden-text visibility (only when text or
\* exclude_text is constrained), title-match mode, text-match speed, for the
\* delayed actions the window delay, and then the command itself.
C2_ConfigurationOrder ==
    \A t \in Threads :
        NoExcludedField(frame[t].self) =>
            /\ InsideCall(t) => lockOwner = t
            /\ CommandSent(t) =>
                    /\ Len(cmdlog[t]) >= Len(ExpectedSequence(frame[t]))
                    /\ Suffix(cmdlog[t], Len(ExpectedSequence(frame[t]))) = ExpectedSequence(frame[t])

\* a delayed action on a spec that constrains text has sent its command
C2_Witness ==
    \E t \in Threads :
        /\ CommandSent(t)
        /\ NoExcludedField(frame[t].self)
        /\ frame[t].self.text # UNSET
        /\ frame[t].set_delay
        /\ Len(cmdlog[t]) = 6

WaitFamily == {"Windows.wait", "Windows.wait_active", "Windows.wait_inactive"}
\* thread t is inside the `with global_ahk_lock` block of _wait
InWait(t) == op[t].name \in WaitFamily /\ pc[t] \notin {"idle", "_wait", "done"}

\* C3: Windows.wait, wait_active and wait_inactive hold the global lock
\* continuously from before their configuration writes, through the blocking
\* wait, until they have read the Last Found Window register; no other thread
\* issues a command in that interval.
C3_WaitHoldsLock ==
    [][\A t \in Threads :
        InWait(t) => /\ lockOwner = t
                     /\ \A u \in Threads \ {t} : ~Issues(u)]_vars

\* a thread is blocked in its wait command while another thread with an
\* operation of its own waits for the lock
C3_Witness ==
    \E t \in Threads, u \in Threads :
        t # u /\ InWait(t) /\ pc[t] = "W_block" /\ WaitsForLock(u)

Done(t) == pc[t] = "done"
OnHandle(t) == op[t].cls \in {"Window", "Control"}

\* C4: whenever Windows.wait, wait_active or wait_inactive returns a non-zero
\* Handle, it identifies the window matched by that call's own wait command;
\* on timeout, or when the spec has an excluded field, it returns Handle(0).
C4_WaitReturnsItsOwnMatch ==
    \A t \in Threads :
        (Done(t) /\ op[t].name \in WaitFamily /\ ~out[t].raised) =>
            /\ out[t].val # PyWindow(0) =>
                    loc[t].matched # 0 /\ out[t].val = PyWindow(loc[t].matched)
            /\ (loc[t].expired \/ ~NoExcludedField(op[t].self)) => out[t].val = PyWindow(0)

\* the values an operation answers when there is nothing to act on; a wait
\* for absence answers True
NeutralValues ==
    {PyNone, PyBool(FALSE), PyBool(TRUE), PyInt(0), PyWindow(0), PyControl(0), PyList(0)}

\* C5: on a Handle whose identifier is 0 every property read and every action
\* returns its neutral value without issuing any backend command and without
\* raising.
C5_InvalidHandleIsInert ==
    \A t \in Threads :
        (Done(t) /\ OnHandle(t) /\ op[t].id = 0) =>
            /\ ~out[t].raised
            /\ cmdlog[t] = <<>>
            /\ out[t].val \in NeutralValues

\* C6: if the target of an operation on a Handle vanishes at any point during
\* the operation, also between two of its backend commands, and the backend
\* reports nothing but its absence, the operation never raises.
C6_VanishedTargetNeverRaises ==
    \A t \in Threads :
        (/\ Done(t) /\ OnHandle(t)
         /\ op[t].existed /\ op[t].id \notin desktop.exists
         /\ loc[t].fault = "") => ~out[t].raised

\* C7: a backend error on a target that exists is surfaced to the caller
\* unchanged, with the code the backend reported as its message, and is never
\* turned into a neutral value.
C7_OtherErrorsSurface ==
    \A t \in Threads :
        (/\ Done(t)
         /\ loc[t].fault # ""
         /\ OnHandle(t) => op[t].id \in desktop.exists) =>
            /\ out[t].raised
            /\ out[t].exc = "Error"
            /\ out[t].message = loc[t].fault

\* what an operation of Windows answers when nothing matches
NoMatchResult(name) ==
    CASE name \in {"Windows.exist", "Windows.last", "Windows.get_active"} \cup WaitFamily ->
            PyWindow(0)
      [] name = "Windows.__len__" -> PyInt(0)
      [] name = "Windows.wait_close" -> PyBool(TRUE)
      [] OTHER -> PyNone

\* C8: if any filter field of a spec (title, class_name, id, pid, exe, text,
\* exclude_title, exclude_text) is the excluded sentinel None, every query and
\* action on it reports no match and issues no backend command.
C8_ExcludedFieldMatchesNothing ==
    \A t \in Threads :
        (Done(t) /\ op[t].cls = "Windows" /\ ~NoExcludedField(op[t].self)) =>
            /\ cmdlog[t] = <<>>
            /\ out[t] = Returned(NoMatchResult(op[t].name))

TimeoutCapable ==
    WaitFamily \cup {"Windows.wait_close", "Windows.close", "Window.wait_active",
                     "Window.wait_inactive", "Window.wait_close", "Window.close",
                     "Window.send_message", "Control.send_message"}
SendMessage == {"Window.send_message", "Control.send_message"}
\* the timeout of t's operation has expired; for close, the window is still there
TimedOut(t) ==
    /\ Done(t)
    /\ op[t].name \in TimeoutCapable
    /\ loc[t].expired
    /\ op[t].name = "Window.close" => op[t].id \in desktop.exists
DefiniteNo == {PyBool(FALSE), PyNone, PyWindow(0)}

C10_WaitActiveIsBoolean ==
    /\ \A t \in Threads :
        (/\ Done(t) /\ ~out[t].raised
         /\ op[t].name \in {"Windows.wait_active", "Windows.wait_inactive",
                              "Window.wait_active", "Window.wait_inactive"}) =>
            /\ out[t].val.k = "bool"
            /\ (loc[t].expired /\ op[t].name \in {"Windows.wait_active", "Window.wait_active"}) =>
                    out[t].val = PyBool(FALSE)
    /\ \A t \in Threads, u \in Threads :
        (/\ Done(t) /\ op[t].name = "Windows.wait_inactive" /\ ~NoExcludedField(op[t].self)
         /\ Done(u) /\ op[u].name = "Window.wait_inactive" /\ op[u].id = 0
         /\ ~out[t].raised /\ ~out[u].raised) =>
            Truthy(out[t].val) = Truthy(out[u].val)

\* the session configuration a spec asks for, and the windows that match the
\* spec under it; a spec with an excluded field matches nothing
SpecConfig(self) ==
    [InitAhk EXCEPT !.DetectHiddenWindows = OnOff(self.hidden_windows),
                    !.DetectHiddenText = OnOff(self.hidden_text),
                    !.TitleMatchMode = TitleModeArg(self.title_mode),
                    !.TitleMatchSpeed = self.text_mode]
SpecMatches(self, d) ==
    IF ~NoExcludedField(self) THEN {}
    ELSE {w \in WinIds : MatchWin(SpecConfig(self), d, Windows__query(self), w)}
CommandNames(log) == {log[i][1] : i \in 1..Len(log)}
ValidModes(self) == self.title_mode \in TITLE_MATCH_MODES /\ self.text_mode \in TEXT_MATCH_MODES

\* C11: Windows.wait_close returns True when no window matching the spec
\* remains before the timeout, also when the spec has an excluded field, and
\* False when the timeout expires; its configuration writes and WinWaitClose
\* are issued in one hold of the lock, and it never asks for the Last Found
\* Window.
C11_WaitCloseAnswer ==
    \A t \in Threads :
        (op[t].name = "Windows.wait_close" /\ ValidModes(op[t].self)) =>
            /\ InsideCall(t) => lockOwner = t
            /\ "WinExist" \notin CommandNames(cmdlog[t])
            /\ Done(t) =>
                /\ ~out[t].raised
                /\ out[t].val \in {PyBool(TRUE), PyBool(FALSE)}
                /\ ~NoExcludedField(op[t].self) => out[t].val = PyBool(TRUE)
                /\ loc[t].expired => out[t].val = PyBool(FALSE)
                /\ out[t].val = PyBool(TRUE) => SpecMatches(op[t].self, desktop) = {}

\* thread t is running the caller's own code: between operations, or with an
\* iterator that is not running
InCallerCode(t) == pc[t] \in {"idle", "done", "iter_created", "iter_suspended"}

\* C12: the global lock is released on every exit path of every operation,
\* also when the backend command raises, when validation fails inside the
\* critical section, and when an error is turned into a neutral result; it is
\* never held while the caller consumes the items of an iteration or runs its
\* own code between operations.
C12_LockReleasedOnExit ==
    \A t \in Threads : InCallerCode(t) => lockOwner # t

\* an operation has left the critical section by an exception raised after
\* its first configuration write
C12_Witness ==
    \E t \in Threads :
        /\ Done(t)
        /\ out[t].raised /\ out[t].exc = "ValueError"
        /\ cmdlog[t] # <<>>
        /\ lockOwner = 0

\* thread t is inside a blocking backend command of an operation outside the
\* wait family
BlockedOutsideWait(t) == pc[t] \in {"W_block", "H_block"} /\ op[t].name \notin WaitFamily
WantsLock(u) == pc[u] \in {"W_lock", "H_lock", "_wait", "send_lock", "send"}

\* C13: the global lock is held across a long wait only in Windows.wait,
\* wait_active and wait_inactive; while any other operation is blocked for a
\* caller-chosen duration (Windows.wait_close, the waits of a Window, close
\* with a timeout, send_message) another thread that wants the lock can take
\* it and issue its commands.
C13_LongWaitsLeaveLockFree ==
    \A t \in Threads, u \in Threads :
        (t # u /\ BlockedOutsideWait(t) /\ WantsLock(u)) => LockFree(u)

SingleQueries == {"Windows.exist", "Windows.last", "Windows.get_active"}
\* the windows a single-result query of t may answer with: those matching the
\* spec, or for get_active on the unconstrained spec the focused window
Answerable(t) ==
    IF op[t].name = "Windows.get_active" /\ BlankQuery(Windows__query(op[t].self))
    THEN {desktop.active} \ {0}
    ELSE SpecMatches(op[t].self, desktop)

\* C14: first (exist, top), last (bottom) and get_active return Handle(0)
\* whenever no window matches the spec, and otherwise the handle the backend
\* reports; a no-match is never raised as an error.
C14_NoMatchIsHandleZero ==
    \A t \in Threads :
        (Done(t) /\ op[t].name \in SingleQueries /\ ValidModes(op[t].self)) =>
            /\ ~out[t].raised
            /\ out[t].val.k = "Window"
            /\ Answerable(t) = {} => out[t].val = PyWindow(0)
            /\ val[t].val.k = "int" => out[t].val = PyWindow(val[t].val.v)

Refiners ==
    {"Windows.filter", "Windows.exclude", "Windows.include_hidden_windows",
     "Windows.exclude_hidden_windows", "Windows.include_hidden_text",
     "Windows.exclude_hidden_text", "Windows.match_text_slow"}
\* thread t is in, or back from, a call that takes a spec and filter arguments
InRefiningCall(t) == pc[t] # "idle" /\ op[t].name \in Refiners \cup {"Windows.exist"}

\* C15: for every spec F and every refining call (filter, exclude,
\* include_hidden_windows, exclude_hidden_windows, include_hidden_text,
\* exclude_hidden_text, match_text_slow, and a query that takes filter
\* arguments) all fields of F are the same during and after the call as before
\* it; the refinement shows only in the returned spec.
C15_ReceiverUnchanged ==
    \A t \in Threads : InRefiningCall(t) => op[t].self = loc[t].before

\* a filter call has returned a spec that differs from its receiver
C15_Witness ==
    \E t \in Threads :
        /\ Done(t) /\ op[t].name = "Windows.filter" /\ ~out[t].raised
        /\ frame[t].self # loc[t].before
        /\ out[t].val = PyWindows(FALSE)

NoArguments(t) ==
    \/ op[t].name = "Windows.filter" /\ AllUnset(loc[t].args)
    \/ op[t].name = "Windows.exclude" /\ loc[t].args.title = UNSET /\ loc[t].args.text = UNSET

\* C16: filter() with every argument unconstrained returns the receiver
\* itself, a value equal to F, and leaves F unmodified; so does exclude() with
\* both arguments unconstrained.
C16_UnconstrainedIsIdentity ==
    \A t \in Threads :
        (Done(t) /\ NoArguments(t)) =>
            /\ out[t] = Returned(PyWindows(TRUE))
            /\ frame[t].self = loc[t].before
            /\ op[t].self = loc[t].before

\* filter() with no argument has returned on a spec that is not the default one
C16_Witness ==
    \E t \in Threads :
        /\ Done(t) /\ op[t].name = "Windows.filter" /\ AllUnset(loc[t].args)
        /\ loc[t].before # DefaultWindows
        /\ ~out[t].raised

\* C17: filter returns a spec in which each supplied parameter (any value
\* but UNSET, also None) replaces the prior value of its field and each
\* omitted parameter keeps it; the exclusion pair and the hidden-window,
\* hidden-text and text-speed fields are carried over.
C17_FilterMerges ==
    \A t \in Threads :
        (Done(t) /\ op[t].name = "Windows.filter" /\ ~out[t].raised) =>
            LET r == frame[t].self
                b == loc[t].before
                a == loc[t].args
            IN /\ \A f \in {"title", "class_name", "id", "pid", "exe", "text"} :
                    r[f] = IF a[f] # UNSET THEN a[f] ELSE b[f]
               /\ r.title_mode = IF a.match # UNSET THEN a.match.v ELSE b.title_mode
               /\ \A f \in {"exclude_title", "exclude_text", "hidden_windows", "hidden_text", "text_mode"} :
                    r[f] = b[f]

\* filter(title=None) has returned on a spec that constrains text: the title
\* is now excluded and the text is kept
C17_Witness ==
    \E t \in Threads :
        /\ Done(t) /\ op[t].name = "Windows.filter" /\ ~out[t].raised
        /\ loc[t].args.title = None /\ loc[t].args.text = UNSET
        /\ loc[t].before.text # UNSET
        /\ frame[t].self.title = None
        /\ frame[t].self.text = loc[t].before.text

\* thread t is in, or back from, a call whose match argument is no title match mode
InvalidMatchCall(t) ==
    /\ pc[t] # "idle"
    /\ \/ op[t].name \in {"Windows.filter", "Windows.exist"} /\ InvalidMatch(loc[t].args)
       \/ op[t].name = "Window.get_control" /\ MatchArgs[op[t].arg] \notin TITLE_MATCH_MODES

\* C18: filter, and every query or action that takes a match argument
\* (a query with filter arguments, Window.get_control), called with a match
\* value outside startswith, contains, exact, regex raises ValueError before
\* any backend command is issued and returns nothing.
C18_InvalidMatchRaisesFirst ==
    \A t \in Threads :
        InvalidMatchCall(t) =>
            /\ cmdlog[t] = <<>>
            /\ Done(t) => (out[t].raised /\ out[t].exc = "ValueError")

\* C18 for the operations of Windows alone: the check of the match value in
\* filter precedes everything else, the call is over at once
C18_FilterValidatesFirst ==
    \A t \in Threads :
        (InvalidMatchCall(t) /\ op[t].name \in {"Windows.filter", "Windows.exist"}) =>
            /\ Done(t)
            /\ out[t].raised /\ out[t].exc = "ValueError"
            /\ cmdlog[t] = <<>>
            /\ ahk = InitAhk

\* exist(match=...) with an unknown mode has raised
C18_FilterWitness ==
    \E t \in Threads :
        /\ Done(t) /\ op[t].name = "Windows.exist"
        /\ loc[t].args.match = Val("fuzzy")
        /\ out[t].raised

\* the settings of the backend session, the Last Found Window aside
SessionSettings(a) == [a EXCEPT !.LastFound = 0]

\* thread t is in, or back from, a call with an invalid argument
InvalidArgument(t) ==
    /\ pc[t] # "idle"
    /\ \/ /\ op[t].name = "Window.get_control"
          /\ MatchArgs[op[t].arg] \notin TITLE_MATCH_MODES
          /\ op[t].id # 0 /\ op[t].existed
       \/ op[t].name = "Window.opacity" /\ ~(0 <= op[t].arg /\ op[t].arg <= 255)
       \/ op[t].name = "send_level" /\ ~(0 <= op[t].arg /\ op[t].arg <= 100)
       \/ op[t].name = "hotkey" /\ KeyNames[op[t].arg] = ""

\* C19: every operation given an invalid argument (an unknown title match
\* mode passed to Window.get_control on an existing window, an opacity outside
\* 0..255, a send level outside 0..100, an empty hotkey name) raises without
\* having issued any backend command, and the backend session state is the
\* same as before the call.
C19_InvalidArgumentRaisesFirst ==
    \A t \in Threads :
        InvalidArgument(t) =>
            /\ cmdlog[t] = <<>>
            /\ SessionSettings(ahk) = SessionSettings(InitAhk)
            /\ Done(t) => out[t].raised

\* C19 without Window.get_control: the opacity, the send level and the hotkey
\* name are checked before anything is sent
C19_ValidatedBeforeAnyCommand ==
    \A t \in Threads :
        (InvalidArgument(t) /\ op[t].name # "Window.get_control") =>
            /\ cmdlog[t] = <<>>
            /\ SessionSettings(ahk) = SessionSettings(InitAhk)
            /\ Done(t) => out[t].raised

MessageOps ==
    {"Window.send_message", "Control.send_message", "Window.post_message", "Control.post_message"}
\* the backend answered the message of thread t with the failure that does
\* not tell a vanished target from a refusal: FAIL for SendMessage, 1 for PostMessage
AmbiguousFailure(t) == op[t].name \in MessageOps /\ loc[t].err # NoOutcome

\* C20: when the backend reports the ambiguous failure for send_message the
\* operation checks the existence of the target a second time; a target that
\* does not exist makes the result None, a target that exists makes the error
\* reach the caller. post_message does the same for its failure code.
C20_FailureCheckedAgain ==
    \A t \in Threads :
        (Done(t) /\ AmbiguousFailure(t)) =>
            /\ Last(cmdlog[t])[1] = "WinExist"
            /\ Len(SelectSeq(cmdlog[t], LAMBDA c : c[1] \in {"SendMessage", "PostMessage"})) = 1
            /\ IF op[t].id \in desktop.exists
               THEN out[t].raised /\ out[t].exc = "Error" /\ out[t].message \notin {"FAIL", "1"}
               ELSE out[t] = Returned(PyNone)

\* a send_message has raised its error with the target still on the desktop
C20_Witness ==
    \E t \in Threads :
        /\ Done(t) /\ AmbiguousFailure(t)
        /\ op[t].name = "Window.send_message" /\ op[t].id \in desktop.exists
        /\ out[t].raised /\ out[t].exc = "Error"
        /\ Last(cmdlog[t])[1] = "WinExist"

\* a post_message has raised although its target is on the desktop
C20_WitnessRaised ==
    \E t \in Threads :
        /\ Done(t) /\ AmbiguousFailure(t)
        /\ op[t].name = "Window.post_message" /\ op[t].id \in desktop.exists /\ out[t].raised

\* a send_message has answered None for a target that vanished
C20_WitnessNone ==
    \E t \in Threads :
        /\ Done(t) /\ AmbiguousFailure(t)
        /\ op[t].name = "Window.send_message" /\ op[t].id \notin desktop.exists
        /\ out[t] = Returned(PyNone)

SendOps == {"Windows.send", "Window.send", "Control.send"}
\* thread u has written its key delay inside send and has neither sent the
\* keys nor left the `with global_ahk_lock` block
BetweenDelayAndSend(u) ==
    /\ op[u].name \in SendOps
    /\ pc[u] \notin {"idle", "done", "op_ret"}
    /\ "SetKeyDelay" \in CommandNames(cmdlog[u])
    /\ "ControlSend" \notin CommandNames(cmdlog[u])

\* C21: Windows.send, Window.send and Control.send write the key delay of
\* the calling thread's own settings and send the keys within one hold of the
\* global lock: when ControlSend goes out the backend's key delay is the
\* caller's, the caller has held the lock since it wrote the delay, and no
\* other thread issues a command between the write and the send.
C21_SendUsesOwnKeyDelay ==
    [][\A t \in Threads :
        Issues(t) =>
            /\ \A u \in Threads \ {t} : ~BetweenDelayAndSend(u)
            /\ BetweenDelayAndSend(t) => lockOwner = t /\ lockDepth >= 1
            /\ (op[t].name \in SendOps /\ Last(cmdlog'[t])[1] = "ControlSend") =>
                  /\ BetweenDelayAndSend(t)
                  /\ ahk.KeyDelay = optional_ms(get_settings(t).key_delay)]_vars

\* a thread is about to send its keys with its own key delay in force, which
\* differs from the delay of another thread that is waiting for the lock to send
C21_Witness ==
    \E t \in Threads, u \in Threads :
        /\ t # u
        /\ BetweenDelayAndSend(t) /\ pc[t] \in {"W_cmd", "H_cmd"} /\ frame[t].cmd = "ControlSend"
        /\ ahk.KeyDelay = optional_ms(get_settings(t).key_delay)
        /\ get_settings(u).key_delay # get_settings(t).key_delay
        /\ pc[u] \in {"send_lock", "send"} /\ lockOwner = t

\* how often thread t has sent the list query
ListQueries(t) == Len(SelectSeq(cmdlog[t], LAMBDA c : c = <<"WinGet", "List">>))
FrontToBackOrder(items) == \A i \in 1..Len(items), j \in 1..Len(items) : i < j => items[i] < items[j]
IsPrefixOf(p, q) == Len(p) <= Len(q) /\ SubSeq(q, 1, Len(p)) = p
\* the iteration of thread t is over: the generator is exhausted
Exhausted(t) == Done(t) /\ op[t].name = "Windows.__iter__"

\* C22: iterating a spec issues the list query once, at the first step of
\* the iteration and not when the iterator is created; it yields one Handle
\* per window of the backend's answer in front-to-back order and then ends;
\* when no window matches, or the spec has an excluded field, it yields
\* nothing and raises nothing, and len() of the spec is 0.
C22_IterationIsLazyAndOrdered ==
    \A t \in Threads :
        /\ (op[t].name = "Windows.__iter__" /\ ValidModes(op[t].self)) =>
              /\ pc[t] = "iter_created" => cmdlog[t] = <<>>
              /\ ListQueries(t) <= 1
              /\ pc[t] \in {"iter_loop", "iter_suspended"} => ListQueries(t) = 1
              /\ IsPrefixOf(loc[t].yielded, loc[t].items)
              /\ FrontToBackOrder(loc[t].yielded)
              /\ Exhausted(t) =>
                    /\ ~out[t].raised
                    /\ loc[t].yielded = loc[t].items
                    /\ out[t].val = PyList(Len(loc[t].items))
                    /\ SpecMatches(op[t].self, desktop) = {} => loc[t].yielded = <<>>
        /\ (Done(t) /\ op[t].name = "Windows.__len__" /\ ValidModes(op[t].self)
            /\ SpecMatches(op[t].self, desktop) = {}) =>
              out[t] = Returned(PyInt(0))

\* C22 for the specs without an excluded field
C22_IterationOfPlainSpecs ==
    \A t \in Threads :
        /\ (op[t].name = "Windows.__iter__" /\ ValidModes(op[t].self) /\ NoExcludedField(op[t].self)) =>
              /\ pc[t] = "iter_created" => cmdlog[t] = <<>>
              /\ ListQueries(t) <= 1
              /\ pc[t] \in {"iter_loop", "iter_suspended"} => ListQueries(t) = 1
              /\ IsPrefixOf(loc[t].yielded, loc[t].items)
              /\ FrontToBackOrder(loc[t].yielded)
              /\ Exhausted(t) =>
                    /\ ~out[t].raised
                    /\ loc[t].yielded = loc[t].items
                    /\ out[t].val = PyList(Len(loc[t].items))
                    /\ SpecMatches(op[t].self, desktop) = {} => loc[t].yielded = <<>>
        /\ (Done(t) /\ op[t].name = "Windows.__len__" /\ ValidModes(op[t].self)
            /\ NoExcludedField(op[t].self) /\ SpecMatches(op[t].self, desktop) = {}) =>
              out[t] = Returned(PyInt(0))

\* an iteration has handed out two windows and ended
C22_PlainWitness ==
    \E t \in Threads : Exhausted(t) /\ Len(loc[t].yielded) = 2 /\ ListQueries(t) = 1

\* get_active of thread t has returned; its spec has valid modes and no field
\* with the excluded sentinel (what the sentinel does is the subject of C8)
ActiveAnswered(t) ==
    /\ Done(t) /\ op[t].name = "Windows.get_active"
    /\ ValidModes(op[t].self) /\ NoExcludedField(op[t].self)

\* C23: get_active() on a spec whose query is blank asks the backend for
\* the focused window ("A") and returns its handle; on a spec with a title,
\* class, id, pid, exe, text or exclusion constraint it sends the spec's own
\* query and returns a non-zero handle only if that handle is the active
\* window and matches the spec.
C23_GetActiveSpecialCase ==
    \A t \in Threads :
        ActiveAnswered(t) =>
            /\ ~out[t].raised
            /\ Last(cmdlog[t]) = <<"WinActive", "">>
            /\ IF BlankQuery(Windows__query(op[t].self))
               THEN /\ frame[t].q = ActiveQuery
                    /\ out[t].val = PyWindow(desktop.active)
               ELSE /\ frame[t].q = Windows__query(op[t].self)
                    /\ out[t].val \in {PyWindow(w) : w \in {0} \cup WinIds}
                    /\ out[t].val # PyWindow(0) =>
                          /\ out[t].val = PyWindow(desktop.active)
                          /\ desktop.active \in SpecMatches(op[t].self, desktop)
                    /\ desktop.active \in SpecMatches(op[t].self, desktop) =>
                          out[t].val = PyWindow(desktop.active)

\* get_active() on the unconstrained spec has returned the focused window
\* although the Last Found Window of the session is none or another one
C23_Witness ==
    \E t \in Threads :
        /\ ActiveAnswered(t) /\ op[t].self = DefaultWindows
        /\ desktop.active # 0 /\ out[t].val = PyWindow(desktop.active)
        /\ frame[t].q = ActiveQuery

\* get_active() on a spec that only excludes a title has answered Window(0)
\* while a window with that title has the focus
C23_WitnessNoMatch ==
    \E t \in Threads :
        /\ ActiveAnswered(t) /\ op[t].self = [DefaultWindows EXCEPT !.exclude_title = Val(<<"a">>)]
        /\ desktop.active # 0 /\ out[t].val = PyWindow(0)

\* the commands of a log that are no configuration writes
Commands(log) == SelectSeq(log, LAMBDA c : c[1] \notin ConfigWrites)
\* the group action of thread t has returned, on a spec that queries can be sent for
GroupActed(t) ==
    /\ Done(t) /\ op[t].name \in GroupActions
    /\ ValidModes(op[t].self) /\ NoExcludedField(op[t].self)
GroupSequence(t) ==
    <<<<"GroupAdd", "">>, <<GroupCmd(op[t].name), "">>>>
    \o (IF op[t].tmo # NoTimeout THEN <<<<"WinExist", "">>>> ELSE <<>>)
NamesAgree ==
    /\ \A g \in ahk.groups, h \in ahk.groups : g.by = h.by => g.name = h.name
    /\ \A g \in ahk.groups : \A i \in 1..Len(g.name) : g.name[i] # "-"
    /\ \A t \in Threads : IsGroupQuery(frame[t].q) =>
            \A i \in 1..Len(frame[t].q.title[1].v) : frame[t].q.title[1].v[i] # "-"
AddedThenActed(t) ==
    /\ ~out[t].raised
    /\ Commands(cmdlog[t]) = GroupSequence(t)
    /\ \E g \in ahk.groups :
        /\ g.by = op[t].self /\ g.q = Windows__query(op[t].self)
        /\ g.name = GroupName(op[t].self, op[t].arg)

MoveOps == {"move"} \cup Setters
\* the fields a finished move or setter call supplied
Supplied(t) == IF op[t].name = "move" THEN MoveArgs[op[t].arg]
               ELSE SetterArgs(op[t].name, MoveArgs[op[t].arg])
\* rectangle r with exactly the supplied fields replaced
WithSupplied(r, a) == [i \in 1..4 |-> IF a[i] = PyNone THEN r[i] ELSE a[i].v]
\* the commands of the operation that are not configuration
ReadsOnce(t) == Commands(cmdlog[t]) = <<<<GetPosCmd(op[t].cls), "">>>>

\* C25: a move or a setter of rect, position, x, y, width or height that
\* returns on an existing window or control leaves every rectangle as it was
\* when the call began, except that the target's rectangle has exactly the
\* supplied fields replaced (so move(x, y) keeps width and height); a call that
\* raises or whose target does not exist changes nothing.  A read of rect,
\* position, x, y, width or height on an existing target issues one position
\* query and returns the fields of the target's current rectangle.
C25_RectangleFrame ==
    \A t \in Threads : Done(t) /\ OnHandle(t) =>
        /\ op[t].name \in MoveOps =>
            props.rect = IF op[t].existed /\ ~out[t].raised
                         THEN [loc[t].props.rect EXCEPT ![op[t].id] = WithSupplied(@, Supplied(t))]
                         ELSE loc[t].props.rect
        /\ op[t].name \in {"rect"} \cup DOMAIN FieldRet /\ op[t].existed =>
            /\ ReadsOnce(t)
            /\ props = loc[t].props
            /\ LET r == props.rect[op[t].id] IN
               CASE op[t].name = "rect" ->
                        /\ out[t] = Returned(PyTuple(4))
                        /\ loc[t].rect = [i \in 1..4 |-> PyInt(r[i])]
                 [] op[t].name = "position" ->
                        /\ out[t] = Returned(PyTuple(2))
                        /\ loc[t].rect = <<PyInt(r[1]), PyInt(r[2])>>
                 [] OTHER -> out[t] = Returned(PyInt(r[FieldIndex[FieldRet[op[t].name]]]))

\* a rect read that follows a move(x, y) of the same existing window returns
\* the new x and y and the old width and height
C25_Witness ==
    /\ Done(1) /\ op[1].name = "rect" /\ op[1].id = 1
    /\ loc[1].rect = <<PyInt(5), PyInt(7), PyInt(2), PyInt(2)>>
    /\ InitProps.rect[1] = <<1, 0, 2, 2>>

C25_WitnessControl ==
    /\ Done(1) /\ op[1].name = "set_height" /\ op[1].cls = "Control" /\ ~out[1].raised
    /\ props.rect[op[1].id] = <<NumWins + 1, 0, 2, 8>>

\* ---------------------------------------------------------------------- C26
\* the command that fetches the style of a window or of a control
StyleRead(cls) == <<GetCmd(cls), "Style">>
\* the dedicated command of a setter call
Dedicated(t) ==
    IF op[t].name = "set_is_enabled"
    THEN <<IF op[t].cls = "Control" THEN "Control" ELSE "WinSet",
           IF op[t].arg # 0 THEN "Enable" ELSE "Disable">>
    ELSE IF op[t].cls = "Control" THEN <<"Control", IF op[t].arg # 0 THEN "Show" ELSE "Hide">>
    ELSE <<IF op[t].arg # 0 THEN "WinShow" ELSE "WinHide", "">>
\* the commands of the operation besides configuration and existence checks
Acts(log) == SelectSeq(Commands(log), LAMBDA c : c[1] # "WinExist")

\* C26: on a valid handle, reading is_enabled or is_visible fetches the style
\* once and answers with the DISABLED bit (negated) or the VISIBLE bit of the
\* target's style, whatever the other bits, and changes nothing; writing them
\* issues exactly the dedicated Enable/Disable or Show/Hide command, never a
\* Style write, and an existing target ends with that one bit set or cleared
C26_EnabledVisible ==
    \A t \in Threads : Done(t) /\ OnHandle(t) /\ op[t].id # 0 =>
        /\ op[t].name \in {"is_enabled", "is_visible"} =>
            /\ Acts(cmdlog[t]) = <<StyleRead(op[t].cls)>>
            /\ props = loc[t].props
            /\ op[t].existed /\ ~out[t].raised =>
                out[t] = Returned(PyBool(IF op[t].name = "is_enabled"
                                         THEN ~HasBit(props.style[op[t].id], DISABLED)
                                         ELSE HasBit(props.style[op[t].id], VISIBLE)))
        /\ op[t].name \in {"set_is_enabled", "set_is_visible"} =>
            /\ Acts(cmdlog[t]) = <<Dedicated(t)>>
            /\ \A i \in 1..Len(cmdlog[t]) : cmdlog[t][i] # <<"WinSet", "Style">>
            /\ props.style =
                IF op[t].existed /\ ~out[t].raised
                THEN [loc[t].props.style EXCEPT ![op[t].id] =
                        IF op[t].name = "set_is_enabled" THEN WithBit(@, DISABLED, op[t].arg = 0)
                        ELSE WithBit(@, VISIBLE, op[t].arg # 0)]
                ELSE loc[t].props.style

\* a control that was disabled and has no caption reads as disabled
C26_Witness ==
    /\ Done(1) /\ op[1].name = "is_enabled" /\ op[1].cls = "Control"
    /\ out[1] = Returned(PyBool(FALSE))
    /\ props.style[op[1].id] = VISIBLE + DISABLED

\* a hidden window was shown
C26_WitnessShown ==
    /\ Done(1) /\ op[1].name = "set_is_visible" /\ op[1].id = 2
    /\ HasBit(props.style[2], VISIBLE) /\ ~HasBit(InitProps.style[2], VISIBLE)

\* ---------------------------------------------------------------------- C27
\* what the window or control holds for the property the operation reads;
\* None stands for nothing to report (no transparency level)
Held(t) ==
    LET w == op[t].id IN
    CASE op[t].name = "title" -> PyStr(StrIndex(props.title[w]))
      [] op[t].name = "text" -> PyStr(StrIndex(props.text[w]))
      [] op[t].name = "class_name" -> PyStr(ClassIndex(w))
      [] op[t].name = "pid" -> PyInt(WinPid(w))
      [] op[t].name \in {"process_name", "process_path"} -> PyStr(ClassIndex(w))
      [] op[t].name = "style" -> PyInt(props.style[w])
      [] op[t].name = "opacity" -> IF props.opacity[w] < 0 THEN PyNone ELSE PyInt(props.opacity[w])
Getters == {"title", "text", "class_name", "style"} \cup DOMAIN GetSubcmd

\* C27: a getter that returns answers None when its target does not exist and
\* the property's value when it does: Window.title and Control.text answer the
\* empty string for an empty title or text, class_name and the WinGet-based
\* pid, process_name, process_path, style and opacity answer None whenever the
\* backend's result is empty (opacity also for a window with no transparency
\* level); a getter raises only on an existing target
C27_EmptyResults ==
    \A t \in Threads : Done(t) /\ OnHandle(t) /\ op[t].name \in Getters =>
        IF out[t].raised THEN op[t].existed
        ELSE out[t] = Returned(IF op[t].existed THEN Held(t) ELSE PyNone)

\* the title of an existing window with an empty title reads as ""
C27_Witness ==
    /\ Done(1) /\ op[1].name = "title" /\ op[1].existed
    /\ props.title[op[1].id] = <<>>
    /\ out[1] = Returned(Blank)

C27_WitnessText ==
    /\ Done(1) /\ op[1].name = "text" /\ op[1].existed /\ out[1] = Returned(Blank)

C27_WitnessOpacity ==
    /\ Done(1) /\ op[1].name = "opacity" /\ op[1].existed /\ out[1] = Returned(PyNone)

C27_WitnessAbsent ==
    /\ Done(1) /\ op[1].name \in {"title", "text"} /\ op[1].id # 0 /\ ~op[1].existed
    /\ out[1] = Returned(PyNone)

\* ---------------------------------------------------------------------- C28
\* the one category of a class name
Category(class) ==
    LET lower == Lower(StrOf(class)) IN
    IF Contains(SYSLISTVIEW32, lower) THEN "ListView"
    ELSE IF Contains(COMBO, lower) THEN "ComboBox"
    ELSE IF Contains(LIST, lower) THEN "ListBox"
    ELSE "Other"
ListOps == {"list_choice_index", "list_item_index", "list_item_count", "list_items", "get_list_items"}
\* the category a message is meant for
MessageFor(msg) ==
    IF msg \in {CB_GETCOUNT, CB_GETCURSEL, CB_FINDSTRINGEXACT} THEN "ComboBox" ELSE "ListBox"

\* no command of the operation failed on a present target or timed out
NoFault(t) == loc[t].fault = "" /\ ~loc[t].expired

\* C28: every list-control operation on an existing control treats the
\* control as its class name's one category: it sends only messages meant for
\* that category (so a list view gets no ListBox message), and, when no
\* command fails for a reason of its own, it yields None on a control of no
\* list category
C28_OneClassification ==
    \A t \in Threads : Done(t) /\ op[t].name \in ListOps /\ op[t].existed /\ NoFault(t) =>
        LET cat == Category(props.class[op[t].id]) IN
        /\ \A i \in 1..Len(loc[t].msgs) : MessageFor(loc[t].msgs[i]) = cat
        /\ cat = "Other" => out[t] = Returned(PyNone)

\* list_item_count and get_list_items do tell the four categories apart
C28_CountAndItemsAgree ==
    \A t \in Threads :
        Done(t) /\ op[t].name \in {"list_item_count", "get_list_items"} /\ op[t].existed /\ NoFault(t) =>
        LET cat == Category(props.class[op[t].id]) IN
        /\ \A i \in 1..Len(loc[t].msgs) : MessageFor(loc[t].msgs[i]) = cat
        /\ cat = "Other" => out[t] = Returned(PyNone)

\* a list view was asked for its ListBox selection
C28_ListViewGetsListBoxMessage ==
    /\ Done(1) /\ op[1].name = "list_choice_index" /\ op[1].existed
    /\ Category(props.class[op[1].id]) = "ListView"
    /\ loc[1].msgs = <<LB_GETCURSEL>>

\* ---------------------------------------------------------------------- C29
EntryOps == {"list_choice", "get_line", "get_list_items", "choose_item_index"}
\* the operation asks a control that keeps such entries for one of them
EntryQuery(t) ==
    LET cat == Category(props.class[op[t].id]) IN
    /\ Done(t) /\ op[t].name \in EntryOps /\ op[t].existed
    /\ op[t].name \in {"list_choice", "choose_item_index"} => cat \in {"ComboBox", "ListBox"}
    /\ op[t].name = "get_list_items" => cat = "ListView" /\ Columns[op[t].arg] # PyNone
\* the entry the operation asks for does not exist
EntryMissing(t) ==
    LET w == op[t].id IN
    CASE op[t].name = "list_choice" -> props.sel[w] < 0
      [] op[t].name = "get_line" -> op[t].arg + 1 > CtlLineCount(w)
      [] op[t].name = "get_list_items" -> Columns[op[t].arg].v + 1 > ColumnCount(props.class[w])
      [] op[t].name = "choose_item_index" -> op[t].arg + 1 > CtlItemCount(w)
      [] OTHER -> FALSE
\* C29: a query for an entry that does not exist (no selection, a line, a
\* column or an index out of range) on an existing control returns None and
\* does not raise, provided no command failed for another reason; a query
\* for an existing entry that failed is raised (get_line takes a failure on
\* the last line for a blank line)
C29_MissingEntryIsAbsent ==
    \A t \in Threads : EntryQuery(t) =>
        /\ EntryMissing(t) /\ NoFault(t) => out[t] = Returned(PyNone)
        /\ ~EntryMissing(t) /\ ~NoFault(t) /\ op[t].name # "get_line" => out[t].raised

\* list_choice with no selection and get_line past the end do return None
C29_ChoiceAndLineAbsent ==
    \A t \in Threads : EntryQuery(t) /\ op[t].name \in {"list_choice", "get_line"} =>
        /\ EntryMissing(t) /\ NoFault(t) => out[t] = Returned(PyNone)
        /\ ~EntryMissing(t) /\ ~NoFault(t) /\ op[t].name # "get_line" => out[t].raised

\* a column out of range came back as an error
C29_ColumnOutOfRangeRaised ==
    /\ EntryQuery(1) /\ op[1].name = "get_list_items" /\ EntryMissing(1) /\ NoFault(1)
    /\ out[1] = Raised("Error", "column index out of range")

\* an index out of range came back as an error
C29_IndexOutOfRangeRaised ==
    /\ EntryQuery(1) /\ op[1].name = "choose_item_index" /\ EntryMissing(1) /\ NoFault(1)
    /\ out[1] = Raised("Error", "1")

\* C30: when a local_settings scope is left, at the end of its body or by
\* the exception the body raised, the current settings of the thread have
\* exactly the field values they had when the scope was entered, whatever
\* fields of the scoped settings the body assigned.
C30_ScopeRestoresSettings ==
    [][\A t \in Threads :
          Len(settings'.scopes[t]) < Len(settings.scopes[t])
              => settings'.heap[settings'.cur[t]] = Head(settings.scopes[t]).before]_vars
\* thread 1 left a scope by the exception its body raised, the settings of
\* that scope have an assigned field, and default_settings is current again
C30_Witness ==
    /\ settings.scopes[1] = <<>>
    /\ settings.raising[1]
    /\ settings.cur[1] = 1
    /\ settings.heap[1] = default_settings
    /\ \E m \in 1..Len(settings.mgrs) :
          /\ settings.mgrs[m].prior_settings = 1
          /\ settings.heap[settings.mgrs[m].new_settings].win_delay \in NewDelays
\* a thread with no settings of its own left a scope normally and has a copy
\* of default_settings as its current settings
C30_WitnessNewThread ==
    \E t \in Threads \ {1} :
        /\ settings.scopes[t] = <<>>
        /\ ~settings.raising[t]
        /\ settings.cur[t] > 1
        /\ settings.heap[settings.cur[t]] = default_settings
        /\ \E m \in 1..Len(settings.mgrs) :
              /\ settings.mgrs[m].prior_settings = settings.cur[t]
              /\ settings.heap[settings.mgrs[m].new_settings] # default_settings

\* C31: the settings of a thread are an object of its own, made as a copy of
\* the defaults, so that what the threads assign through get_settings() shows
\* neither in the settings of another thread nor in default_settings, from
\* which the threads that start later are initialized.
C31_SettingsPerThread ==
    /\ settings.heap[1] = default_settings
    /\ \A t, u \in Threads :
          t # u /\ settings.cur[t] # 0 => settings.cur[u] # settings.cur[t]
    /\ \A t \in Threads \ {1} :
          settings.cur[t] = 0 => get_settings(t) = default_settings
\* the settings of the threads that start later are objects of their own:
\* what such a thread assigns stays out of default_settings and out of the
\* settings of every other thread
C31_LaterThreadsApart ==
    \A t \in Threads \ {1} :
        settings.cur[t] # 0 =>
            /\ settings.cur[t] # 1
            /\ \A u \in Threads \ {t} : settings.cur[u] # settings.cur[t]
\* a thread that started later has assigned a field of its own settings and
\* default_settings still has its value
C31_LaterThreadAssigned ==
    \E t \in Threads \ {1} :
        /\ settings.cur[t] > 1
        /\ settings.heap[settings.cur[t]].win_delay \in NewDelays
        /\ settings.heap[1].win_delay = default_settings.win_delay

\* C32: a window context keeps the spec its arguments refine and issues no
\* backend command when it is made; when its predicate is evaluated, the
\* exists and active predicates are true exactly when the kept spec has a
\* match, respectively an active match, in the window state, and the
\* not-exists and not-active predicates are true exactly when it has none.
InContext(t) == op[t].name \in ContextNames
ContextQuery(t) ==
    IF ContextActive(op[t].name) /\ BlankQuery(Windows__query(op[t].self))
    THEN ActiveQuery ELSE Windows__query(op[t].self)
ContextHolds(t) ==
    /\ ~Excluded(op[t].self)
    /\ IF ContextActive(op[t].name)
       THEN ActiveMatch(ahk, desktop, ContextQuery(t)) # 0
       ELSE FirstMatch(ahk, desktop, ContextQuery(t)) # 0
C32_ContextPredicates ==
    \A t \in Threads :
        InContext(t) =>
            /\ ~Windows_filter(loc[t].before, loc[t].args).raised =>
                  op[t].self = Windows_filter(loc[t].before, loc[t].args).result
            /\ pc[t] = "context_created" => cmdlog[t] = <<>>
            /\ pc[t] \notin {"context_created", "done"} =>
                  frame[t].self = op[t].self /\ frame[t].q = ContextQuery(t)
            /\ pc[t] = "done" /\ ~out[t].raised =>
                  Truthy(out[t].val) = (ContextHolds(t) # ContextNegates(op[t].name))
\* a not-exists predicate of a refined spec answered True
C32_Witness ==
    /\ pc[1] = "done"
    /\ op[1].name = "Windows.nonexistent_window_context"
    /\ ~out[1].raised
    /\ Truthy(out[1].val)
    /\ loc[1].args.title # UNSET
    /\ cmdlog[1] # <<>>
\* an active predicate answered with the active window
C32_WitnessActive ==
    /\ pc[1] = "done"
    /\ op[1].name = "Windows.active_window_context"
    /\ ~out[1].raised
    /\ Truthy(out[1].val)
\* a not-active predicate answered False
C32_WitnessInactive ==
    /\ pc[1] = "done"
    /\ op[1].name = "Windows.inactive_window_context"
    /\ ~out[1].raised
    /\ ~Truthy(out[1].val)

\* C33: in WindowStyle and in ExWindowStyle every preset is the union of the
\* flags it is made of, so each of these flags tests as a member of the
\* preset and of every value the preset was joined to; the value of one
\* catalog is made of the flags of that catalog only, whatever is joined to
\* the value of the other, and the presets the two catalogs both name are
\* unions of their own flags.
Joined(t, catalog) == {n \in DOMAIN Catalog(catalog) : \E i \in 1..Len(loc[t].msgs) : loc[t].msgs[i] = <<catalog, n>>}
C33_PresetsAreUnions ==
    /\ \A catalog \in Catalogs : \A p \in Presets(catalog) :
          /\ Catalog(catalog)[p] = UNION {Catalog(catalog)[n] : n \in Constituents(catalog, p)}
          /\ \A n \in Constituents(catalog, p) :
                IntFlag_contains(Catalog(catalog)[p], Catalog(catalog)[n])
    /\ WindowStyle.OVERLAPPEDWINDOW # ExWindowStyle.OVERLAPPEDWINDOW
    /\ \A t \in Threads :
          /\ op[t].cls \in Catalogs \cup {"IntFlag"} /\ pc[t] # "idle" =>
                \A catalog \in Catalogs :
                    StyleOf(val[t].val, catalog) = UNION {Catalog(catalog)[n] : n \in Joined(t, catalog)}
          /\ op[t].name = "IntFlag.__contains__" /\ pc[t] = "done" =>
                ((\E p \in Joined(t, op[t].cls) : loc[t].opt \in Constituents(op[t].cls, p) \cup {p})
                    => out[t] = Returned(PyBool(TRUE)))
\* TOPMOST tested in a value PALETTEWINDOW was joined to, beside a WindowStyle
\* value with OVERLAPPEDWINDOW
C33_Witness ==
    /\ pc[1] = "done"
    /\ op[1].name = "IntFlag.__contains__"
    /\ op[1].cls = "ExWindowStyle"
    /\ loc[1].opt = "TOPMOST"
    /\ loc[1].msgs = << <<"WindowStyle", "OVERLAPPEDWINDOW">>, <<"ExWindowStyle", "PALETTEWINDOW">> >>
    /\ out[1] = Returned(PyBool(TRUE))
\* OVERLAPPED, which has no bit, tested in OVERLAPPEDWINDOW
C33_WitnessNoBit ==
    /\ pc[1] = "done"
    /\ op[1].cls = "WindowStyle"
    /\ loc[1].opt = "OVERLAPPED"
    /\ loc[1].msgs = << <<"WindowStyle", "OVERLAPPEDWINDOW">> >>
    /\ out[1] = Returned(PyBool(TRUE))
\* a flag of no preset tested in a preset is no member
C33_WitnessNoMember ==
    /\ pc[1] = "done"
    /\ op[1].cls = "WindowStyle"
    /\ loc[1].opt = "VISIBLE"
    /\ loc[1].msgs = << <<"WindowStyle", "POPUPWINDOW">> >>
    /\ out[1] = Returned(PyBool(FALSE))

\* C34: the four query fragments of a spec are made of its field values
\* alone: taken twice from one spec, or from a spec equal to it, they are the
\* same strings; the title fragment is the constrained criteria among title,
\* class, id, pid and exe, in that order, with one space between two, and a
\* field that is not constrained gives the empty string.
Criteria == <<"title", "class_name", "id", "pid", "exe">>
Criterion(self, name) ==
    CASE name = "title" -> Str(self.title)
      [] name = "class_name" -> <<"ahk_class", " ">> \o Str(self.class_name)
      [] name = "id" -> <<"ahk_id", " ">> \o StrI(self.id)
      [] name = "pid" -> <<"ahk_pid", " ">> \o StrI(self.pid)
      [] OTHER -> <<"ahk_exe", " ">> \o Str(self.exe)
RECURSIVE InOrder(_, _)
InOrder(self, i) ==
    IF i > Len(Criteria) THEN <<>>
    ELSE LET rest == InOrder(self, i + 1) IN
         IF self[Criteria[i]] = UNSET THEN rest
         ELSE Criterion(self, Criteria[i]) \o (IF \E j \in (i + 1)..Len(Criteria) : self[Criteria[j]] # UNSET
                                               THEN <<" ">> ELSE <<>>) \o rest
OrEmpty(field) == IF field = UNSET THEN <<>> ELSE Str(field)
C34_FragmentsOfFieldValues ==
    \A t \in Threads :
        op[t].name = "Windows._query" =>
            LET self == op[t].self
                expected == Returned(PyTuple(<<InOrder(self, 1), OrEmpty(self.text),
                                               OrEmpty(self.exclude_title), OrEmpty(self.exclude_text)>>))
            IN  /\ pc[t] \in {"query_again", "query_other", "done"} => loc[t].res = expected
                /\ pc[t] \in {"query_other", "done"} => val[t] = loc[t].res
                /\ pc[t] = "done" => out[t] = loc[t].res
\* the fragments of a spec with every field constrained were taken three times
C34_Witness ==
    /\ pc[1] = "done"
    /\ op[1].name = "Windows._query"
    /\ \A f \in {"title", "class_name", "id", "pid", "exe", "text", "exclude_title", "exclude_text"} :
          op[1].self[f] # UNSET
    /\ out[1].val.v[1] = <<"a", " ", "ahk_class", " ", "Notepad", " ", "ahk_id", " ", "2", " ",
                           "ahk_pid", " ", "1", "0", "1", " ", "ahk_exe", " ", "b">>
\* the fragments of a spec with only class and exe constrained
C34_WitnessUnconstrained ==
    /\ pc[1] = "done"
    /\ op[1].name = "Windows._query"
    /\ out[1].val.v = << <<"ahk_class", " ", "Notepad", " ", "ahk_exe", " ", "b">>, <<>>, <<>>, <<>> >>

\* C35: a wait, wait_active, wait_inactive or wait_close that is given a
\* timeout of zero or more seconds ends, and the caller does not hold the
\* global lock when it has ended.
TimedFamily == WaitFamily \cup {"Windows.wait_close"}
C35_TimedWaitsEnd ==
    \A t \in Threads :
        (op[t].name \in TimedFamily /\ op[t].tmo >= 0) ~> (pc[t] = "done" /\ lockOwner # t)
\* with a timeout above zero the wait ends, and the lock is free afterwards
C35_PositiveTimeoutsEnd ==
    \A t \in Threads :
        (op[t].name \in TimedFamily /\ op[t].tmo > 0) ~> (pc[t] = "done" /\ lockOwner # t)
\* a wait with timeout 0 sits in the backend with no timeout, holding the lock
C35_ZeroTimeoutBlocks ==
    /\ pc[1] = "W_block"
    /\ op[1].name = "Windows.wait"
    /\ op[1].tmo = 0
    /\ frame[1].tmo = NoTimeout
    /\ lockOwner = 1
    /\ AhkWake(frame[1], ahk, desktop) = {}

\* C36: every command a Window or Control operation hands to the backend
\* names the identifier of the handle as its target.
HandleOps(t) == op[t].cls \in {"Window", "Control"}
AtCommand(t) == pc[t] \in {"H_cmd", "H_block"}
C36_CommandsNameTheHandle ==
    \A t \in Threads :
        HandleOps(t) /\ AtCommand(t) => frame[t].q = HandleQuery(op[t].id)
\* the same of every operation but choose_item_index
C36_OthersNameTheHandle ==
    \A t \in Threads :
        HandleOps(t) /\ AtCommand(t) /\ ~(frame[t].cmd = "Control" /\ frame[t].sub = "Choose")
            => frame[t].q = HandleQuery(op[t].id)
\* choose_item_index of one control has set the selection of the last found
\* window, which is another window
C36_ChoseInAnotherWindow ==
    \E w \in Hwnds :
        /\ op[1].name = "choose_item_index"
        /\ pc[1] = "done"
        /\ w # op[1].id
        /\ props.sel[w] # loc[1].props.sel[w]
        /\ props.sel[op[1].id] = loc[1].props.sel[op[1].id]

QueryNames ==
    {"Windows.exist", "Windows.last", "Windows.get_active", "Windows.__len__", "Windows.__iter__"}
AtQuery(t) == pc[t] = "W_cmd" /\ op[t].name \in QueryNames /\ ~Blocking(frame[t])
\* the session states earlier operations can have left behind by the time the
\* command of a query is sent: any window or none in the register of the
\* last found window, and either visibility of hidden text when the spec
\* constrains no text, for then _call does not write it
LeftBehind(t) ==
    {[ahk EXCEPT !.LastFound = w, !.DetectHiddenText = h] :
        w \in {0} \cup WinIds,
        h \in IF op[t].self.text = UNSET /\ op[t].self.exclude_text = UNSET
              THEN {"On", "Off"} ELSE {ahk.DetectHiddenText}}
\* what the backend can answer to the command in session state a
Answers(t, a) == {<<r.res, r.items>> : r \in AhkImmediate(frame[t], a, desktop)}

\* C38: the answer to a query depends on the spec and the windows only:
\* whatever session state earlier operations left behind, the command of the
\* query has the same possible answers, also when the spec constrains nothing.
C38_QueriesIgnoreSession ==
    \A t \in Threads : AtQuery(t) => \A a \in LeftBehind(t) : Answers(t, a) = Answers(t, ahk)
\* the same of the queries whose command names at least one criterion
C38_NamedQueriesIgnoreSession ==
    \A t \in Threads :
        AtQuery(t) /\ ~BlankQuery(frame[t].q) => \A a \in LeftBehind(t) : Answers(t, a) = Answers(t, ahk)
\* a query of a spec with a criterion is about to be answered while the
\* register holds a window
C38_NamedQueryAfterFind ==
    \E t \in Threads : AtQuery(t) /\ ~BlankQuery(frame[t].q) /\ ahk.LastFound # 0
\* the query of the unconstrained spec is about to be answered from the register
C38_BlankQueryAfterFind ==
    \E t \in Threads : AtQuery(t) /\ BlankQuery(frame[t].q) /\ ahk.LastFound \in desktop.exists

\* thread t is about to send the command of a group action against its group
AtGroupCommand(t) ==
    pc[t] = "W_cmd" /\ op[t].name \in GroupActions /\ IsGroupQuery(frame[t].q)
\* the windows that match the spec the action of thread t was called on
MatchingItsSpec(t) == {w \in Hwnds : MatchWin(ahk, desktop, Windows__query(op[t].self), w)}
\* the command of thread t touches no window outside its spec
StaysInSpec(t) ==
    pc'[t] = "W_unlock" => (desktop.exists \ desktop'.exists) \subseteq MatchingItsSpec(t)
\* every fragment in the group of thread t was added for the spec of thread t
OwnGroup(t) ==
    \A g \in ahk.groups : g.name = frame[t].q.title[1].v => g.by = op[t].self

\* C39: the command of a group action affects only windows that match the
\* spec the action was called on, whatever group actions came before it,
\* also those of other specs that derive the same group name.
C39_GroupActionsStayInSpec ==
    [][\A t \in Threads : AtGroupCommand(t) => StaysInSpec(t)]_vars
\* the same of the actions whose group holds the fragments of no other spec
C39_OwnGroupsStayInSpec ==
    [][\A t \in Threads : AtGroupCommand(t) /\ OwnGroup(t) => StaysInSpec(t)]_vars
\* an action has closed the windows of its own group
C39_ClosedOwnGroup ==
    \E t \in Threads :
        /\ op[t].name = "Windows.close_all" /\ pc[t] = "W_unlock" /\ IsGroupQuery(frame[t].q)
        /\ OwnGroup(t)
        /\ desktop.exists # Hwnds
\* two specs with different fields have added their fragments to one group
C39_SharedGroup ==
    \E g \in ahk.groups, h \in ahk.groups : g.name = h.name /\ g.by # h.by

\* thread t leaves its innermost scope in this step
Exits(t) == Len(settings'.scopes[t]) < Len(settings.scopes[t])
\* the manager of the innermost scope of thread t is open further out as well
EnteredAgain(t) ==
    \E i \in 2..Len(settings.scopes[t]) : settings.scopes[t][i].mgr = Head(settings.scopes[t]).mgr

\* C40: each exit of a scope makes current the settings object that was
\* current when that scope was entered, also when the manager of the scope
\* was entered more than once.
C40_ExitRestoresEntryObject ==
    [][\A t \in Threads : Exits(t) => settings'.cur[t] = Head(settings.scopes[t]).entered]_vars
\* a manager is open twice on one thread
C40_OpenTwice == \E t \in Threads : settings.scopes[t] # <<>> /\ EnteredAgain(t)
\* every scope is closed and the settings of before the first entry are not back
C40_NotRestored ==
    /\ settings.scopes[1] = <<>>
    /\ settings.mgrs # <<>>
    /\ settings.cur[1] # 1

====
